---- MODULE Spec2Model ----
(***************************************************************************)
(* The task-list server of Assesment-TMS: the four relations of the store  *)
(* (users, task_lists, tasks, task_list_shares) and the express handlers   *)
(* of routes/auth.js, routes/tasklists.js, routes/tasks.js and             *)
(* routes/shares.js.                                                       *)
(*                                                                         *)
(* A handler runs from one `await` of a prisma call to the next.  Each     *)
(* handler is written once, as a function from the store and the request   *)
(* (with its position pc and its locals) to the store and the request      *)
(* after one prisma statement and the synchronous code that follows it.    *)
(* Serve runs a request to its response with no other request in between   *)
(* (the server handling one request at a time); Begin and Advance run the  *)
(* same function one statement at a time, so that requests interleave.     *)
(***************************************************************************)
EXTENDS Integers, Sequences, FiniteSets, TLC

\* ------------------------------------------------------------ bounds
\* Rows ever inserted into each relation (ids are never reused).
MaxUsers == 2
MaxLists == 2
MaxTasks == 1
MaxShares == 2

\* Rows ever inserted where listings are compared: one list with two tasks and
\* two shares, which takes an owner and two more users.
MaxListedUsers == 3
MaxListedTasks == 2
MaxListedShares == 2

\* ------------------------------------------------------------ inputs
Emails == {"a@x.com", "b@x.com"}
InvalidEmail == "not-an-email"
\* An address nobody registers with.
UnregisteredEmail == "nobody@x.com"
\* Passwords of six characters or more, one that is shorter, and none.
Passwords == {"secret1", "secret2"}
ShortPassword == "short"
NoPassword == ""
Titles == {"A", "B"}
Permissions == {"view", "edit"}
InvalidPermission == "admin"
Statuses == {"pending", "in_progress", "completed"}
InvalidStatus == "archived"
Undefined == "undefined"
Null == "null"
\* Task descriptions: absent, empty and a text.
Descriptions == {Undefined, "", "d"}

UserIds == 1..MaxUsers
ListIds == 1..MaxLists
TaskIds == 1..MaxTasks
ShareIds == 1..MaxShares

\* Request slots: the requests the server has in flight at one time.
Slots == {1, 2}

VARIABLES
    db,     \* the store: db.users      rows [id, email]
            \*            db.taskLists  rows [id, title, ownerId]
            \*            db.tasks      rows [id, title, description, status, taskListId]
            \*            db.shares     rows [id, taskListId, userId, permission]
            \*            db.nextListId, db.nextTaskId, db.nextShareId: fresh ids
    req,    \* req[r]: the request in slot r, its position and its response
    dash    \* the Dashboard of one browser: its React state, the task fetches
            \* it has sent and not yet received, and the last response received

vars == <<db, req, dash>>

EmptyStore ==
    [users |-> {}, taskLists |-> {}, tasks |-> {}, shares |-> {},
     nextListId |-> 1, nextTaskId |-> 1, nextShareId |-> 1]

\* ------------------------------------------------------------ responses
NoResp == [status |-> 0, error |-> "", permission |-> "", isOwner |-> FALSE,
           tasks |-> <<>>, shares |-> <<>>,
           owned |-> <<>>, shared |-> <<>>, all |-> <<>>]

Err(status, message) == [NoResp EXCEPT !.status = status, !.error = message]

Ok(status) == [NoResp EXCEPT !.status = status]

ValidationError == Err(400, "validation")

\* ------------------------------------------------------------ requests
\* scheme and token are the Authorization header; userId is req.user.id once
\* authenticate has run; targetId, resolved and owned are the handler's locals.
Blank == [kind |-> "none", pc |-> "idle", scheme |-> "none", token |-> 0,
          userId |-> 0, taskListId |-> 0, taskId |-> 0, shareId |-> 0,
          email |-> "", password |-> "", permission |-> "", title |-> "",
          description |-> "",
          status |-> "", targetId |-> 0, resolved |-> "", owned |-> <<>>,
          resp |-> NoResp]

\* One statement of a handler: the store and the request after it.
Res(d, q) == [db |-> d, q |-> q]

Goto(d, q, pc) == Res(d, [q EXCEPT !.pc = pc])

Reply(d, q, resp) == Res(d, [q EXCEPT !.pc = "done", !.resp = resp])

\* ------------------------------------------------------------ store reads
Exists(rel, id) == \E x \in rel : x.id = id

Row(rel, id) == CHOOSE x \in rel : x.id = id

UserByEmail(d, email) == {u \in d.users : u.email = email}

SharesOf(d, taskListId, userId) ==
    {s \in d.shares : s.taskListId = taskListId /\ s.userId = userId}

TasksOf(d, taskListId) == {t \in d.tasks : t.taskListId = taskListId}

SharesOn(d, taskListId) == {s \in d.shares : s.taskListId = taskListId}

\* Rows in the order of their creation.
RECURSIVE OldestFirst(_)
OldestFirst(rows) ==
    IF rows = {} THEN <<>>
    ELSE LET x == CHOOSE y \in rows : \A z \in rows : y.id <= z.id
         IN <<x>> \o OldestFirst(rows \ {x})

\* Rows newest first (orderBy createdAt desc): ids are issued in creation order.
RECURSIVE NewestFirst(_)
NewestFirst(rows) ==
    IF rows = {} THEN <<>>
    ELSE LET x == CHOOSE y \in rows : \A z \in rows : z.id <= y.id
         IN <<x>> \o NewestFirst(rows \ {x})

\* Rows as a query without orderBy returns them: in insertion order.
RECURSIVE InsertionOrder(_)
InsertionOrder(rows) ==
    IF rows = {} THEN <<>>
    ELSE LET x == CHOOSE y \in rows : \A z \in rows : y.id <= z.id
         IN <<x>> \o InsertionOrder(rows \ {x})

\* The first row a query returns (insertion order).
First(rows) == CHOOSE y \in rows : \A z \in rows : y.id <= z.id

\* ------------------------------------------------------------ middleware/auth.js
AuthInputs ==
    {[scheme |-> "none", token |-> 0], [scheme |-> "basic", token |-> 0],
     [scheme |-> "bearer", token |-> 0]}
    \cup {[scheme |-> "bearer", token |-> u] : u \in UserIds}

\* authenticate without the lookup of the token's user.
AuthErrorNoUserLookup(d, q) ==
    IF q.scheme # "bearer"
    THEN Err(401, "No token provided. Please authenticate.")
    ELSE IF q.token = 0
    THEN Err(401, "Invalid or expired token. Please login again.")
    ELSE NoResp

\* The 401 authenticate answers, or NoResp when it calls next().  A bearer
\* token that verifyToken rejects is token 0; any other is the userId it holds.
AuthError(d, q) ==
    IF q.scheme # "bearer"
    THEN Err(401, "No token provided. Please authenticate.")
    ELSE IF q.token = 0
    THEN Err(401, "Invalid or expired token. Please login again.")
    ELSE IF ~Exists(d.users, q.token)
    THEN Err(401, "User not found. Please login again.")
    ELSE NoResp

\* router.use(authenticate), then the route's validators, then the handler up
\* to its first prisma call, at pc first.
\* A title of whitespace only, and a title with whitespace around it.
Whitespace == " "
Padded == " B "

\* The sanitizer that leaves the value as it was sent.
TrimNothing(s) == s

\* express-validator's trim(): the value without the whitespace around it.
Trim(s) ==
    IF s = Whitespace THEN "" ELSE IF s = Padded THEN "B" ELSE s

\* The body after the validation chains ran: the sanitizers write the trimmed
\* title and description back to req.body.
Sanitized(q) == [q EXCEPT !.title = Trim(@), !.description = Trim(@)]

\* The validator that lets every permission through.
AnyPermission(permission) == TRUE

\* body('permission').isIn(['view', 'edit'])
ValidPermission(permission) == permission \in Permissions

Enter(d, q, valid, first) ==
    IF AuthError(d, q) # NoResp THEN Reply(d, q, AuthError(d, q))
    ELSE IF ~valid
    THEN Reply(d, [q EXCEPT !.userId = q.token], ValidationError)
    ELSE Res(d, [q EXCEPT !.userId = q.token, !.pc = first])

\* ------------------------------------------------------------ routes/auth.js
\* utils/password: the credential hash stored for a password, and the
\* comparison of a password with a stored hash.
HashPassword(password) == <<"hash", password>>

ComparePassword(password, hash) == HashPassword(password) = hash

\* The relation without its unique index on email.
NoUniqueEmailIndex(d, email) == FALSE

\* users_email_key: the unique index refuses a second row with the email.
UniqueEmailViolation(d, email) == UserByEmail(d, email) # {}

\* POST /api/auth/register
Register(d, q) ==
    CASE q.pc = "start" ->
           IF q.email = InvalidEmail \/ q.password \in {ShortPassword, NoPassword}
           THEN Reply(d, q, ValidationError)
           ELSE Goto(d, q, "findUser")
      [] q.pc = "findUser" ->
           IF UserByEmail(d, q.email) # {}
           THEN Reply(d, q, Err(400, "User with this email already exists"))
           ELSE Goto(d, q, "create")
      [] q.pc = "create" ->
           IF UniqueEmailViolation(d, q.email)
           THEN \* users_email_key: the insert throws, the catch answers 500
                Reply(d, q, Err(500, "Failed to register user"))
           ELSE Reply([d EXCEPT !.users = @ \cup {[id |-> Cardinality(d.users) + 1,
                                                    email |-> q.email,
                                                    password |->
                                                      HashPassword(q.password)]}],
                      [q EXCEPT !.userId = Cardinality(d.users) + 1], Ok(201))

\* The login that tells an unknown email from a wrong password.
LoginErrorReveals(d, q) ==
    IF UserByEmail(d, q.email) = {} THEN Err(401, "No account with this email")
    ELSE IF ~ComparePassword(q.password, First(UserByEmail(d, q.email)).password)
    THEN Err(401, "Invalid email or password")
    ELSE NoResp

\* findUnique by email and comparePassword: both failures answer alike.
LoginError(d, q) ==
    IF UserByEmail(d, q.email) = {} THEN Err(401, "Invalid email or password")
    ELSE IF ~ComparePassword(q.password, First(UserByEmail(d, q.email)).password)
    THEN Err(401, "Invalid email or password")
    ELSE NoResp

\* POST /api/auth/login
Login(d, q) ==
    CASE q.pc = "start" ->
           IF q.email = InvalidEmail \/ q.password = NoPassword
           THEN Reply(d, q, ValidationError)
           ELSE Goto(d, q, "findUser")
      [] q.pc = "findUser" ->
           IF LoginError(d, q) # NoResp THEN Reply(d, q, LoginError(d, q))
           ELSE Reply(d, [q EXCEPT !.userId = First(UserByEmail(d, q.email)).id],
                      Ok(200))

\* ------------------------------------------------------------ routes/tasks.js
\* getUserPermission without its owner branch.
GetUserPermissionNoOwner(d, taskListId, userId) ==
    IF ~Exists(d.taskLists, taskListId)
    THEN [hasAccess |-> FALSE, permission |-> Null, isOwner |-> FALSE]
    ELSE IF SharesOf(d, taskListId, userId) # {}
    THEN [hasAccess |-> TRUE,
          permission |-> First(SharesOf(d, taskListId, userId)).permission,
          isOwner |-> FALSE]
    ELSE [hasAccess |-> FALSE, permission |-> Null, isOwner |-> FALSE]

\* getUserPermission(taskListId, userId): findUnique of the list, including
\* its shares where userId.
GetUserPermission(d, taskListId, userId) ==
    IF ~Exists(d.taskLists, taskListId)
    THEN [hasAccess |-> FALSE, permission |-> Null, isOwner |-> FALSE]
    ELSE LET taskList == Row(d.taskLists, taskListId)
             found == SharesOf(d, taskListId, userId)
         IN IF taskList.ownerId = userId
            THEN [hasAccess |-> TRUE, permission |-> "owner", isOwner |-> TRUE]
            ELSE IF found # {}
            THEN [hasAccess |-> TRUE, permission |-> First(found).permission,
                  isOwner |-> FALSE]
            ELSE [hasAccess |-> FALSE, permission |-> Null, isOwner |-> FALSE]

\* The tier of userId on taskListId as store d states it.
TierIn(d, taskListId, userId) ==
    IF \E l \in d.taskLists : l.id = taskListId /\ l.ownerId = userId
    THEN "owner"
    ELSE IF \E s \in d.shares : /\ s.taskListId = taskListId
                                 /\ s.userId = userId
                                 /\ s.permission = "edit"
    THEN "edit"
    ELSE IF \E s \in d.shares : /\ s.taskListId = taskListId
                                 /\ s.userId = userId
                                 /\ s.permission = "view"
    THEN "view"
    ELSE Null

\* The result without the owner branch.
PermissionOfNoOwner(ownerId, found, userId) ==
    IF found # {} THEN First(found).permission ELSE Null

\* The result getUserPermission computes from the list row and the shares it
\* has read: isOwner, else taskList.shares[0], else no access.
PermissionOf(ownerId, found, userId) ==
    IF ownerId = userId THEN "owner"
    ELSE IF found # {} THEN First(found).permission
    ELSE Null

\* getUserPermission with its findUnique run as two reads, the list row and
\* then the included shares, so that other requests may run between them.
\* targetId holds the ownerId read; resolved keeps, for comparison, the tier
\* the store stated at the first read.
ResolveTier(d, q) ==
    CASE q.pc = "start" -> Enter(d, q, TRUE, "findList")
      [] q.pc = "findList" ->
           IF ~Exists(d.taskLists, q.taskListId)
           THEN Reply(d, q, [Ok(200) EXCEPT !.permission = Null])
           ELSE Res(d, [q EXCEPT !.pc = "findShares",
                                 !.targetId = Row(d.taskLists, q.taskListId).ownerId,
                                 !.resolved = TierIn(d, q.taskListId, q.userId)])
      [] q.pc = "findShares" ->
           LET permission == PermissionOf(q.targetId,
                                          SharesOf(d, q.taskListId, q.userId),
                                          q.userId)
           IN Reply(d, q, [Ok(200) EXCEPT !.permission = permission,
                                          !.isOwner = permission = "owner"])

\* GET /api/tasks/:taskListId
GetTasks(d, q) ==
    CASE q.pc = "start" -> Enter(d, q, TRUE, "permission")
      [] q.pc = "permission" ->
           LET p == GetUserPermission(d, q.taskListId, q.userId)
           IN IF ~p.hasAccess
              THEN Reply(d, q, Err(403, "You do not have access to this task list"))
              ELSE Res(d, [q EXCEPT !.pc = "findMany", !.resolved = p.permission])
      [] q.pc = "findMany" ->
           Reply(d, q, [Ok(200) EXCEPT !.tasks = NewestFirst(TasksOf(d, q.taskListId)),
                                       !.permission = q.resolved])

\* The access check without the `permission === 'view'` branch.
EditAccessErrorNoView(d, q, verb) ==
    IF ~GetUserPermission(d, q.taskListId, q.userId).hasAccess
    THEN Err(403, "You do not have access to this task list")
    ELSE NoResp

\* The access check without the `!hasAccess` branch.
EditAccessErrorNoAccess(d, q, verb) ==
    IF GetUserPermission(d, q.taskListId, q.userId).permission = "view"
    THEN Err(403, verb)
    ELSE NoResp

\* The access check the four mutating task routes share: the 403 it answers,
\* or NoResp when the handler goes on.
EditAccessError(d, q, verb) ==
    LET p == GetUserPermission(d, q.taskListId, q.userId)
    IN IF ~p.hasAccess THEN Err(403, "You do not have access to this task list")
       ELSE IF p.permission = "view" THEN Err(403, verb)
       ELSE NoResp

\* The inserted row with the status as the request gives it.
NewTaskNoDefault(d, q) ==
    [id |-> d.nextTaskId, title |-> q.title,
     description |-> IF q.description \in {Undefined, ""} THEN Null
                     ELSE q.description,
     status |-> q.status, taskListId |-> q.taskListId]

\* The row prisma.task.create inserts: description || null, status || 'pending'.
NewTask(d, q) ==
    [id |-> d.nextTaskId, title |-> q.title,
     description |-> IF q.description \in {Undefined, ""} THEN Null
                     ELSE q.description,
     status |-> IF q.status = Undefined THEN "pending" ELSE q.status,
     taskListId |-> q.taskListId]

\* The insert without the foreign keys on taskListId.
NoForeignKey(d, taskListId) == FALSE

\* tasks_taskListId_fkey and task_list_shares_taskListId_fkey: the insert of a
\* row whose list is absent is refused.
ForeignKeyViolation(d, taskListId) == ~Exists(d.taskLists, taskListId)

\* POST /api/tasks/:taskListId
CreateTask(d, q) ==
    CASE q.pc = "start" ->
           Enter(d, Sanitized(q), /\ Trim(q.title) \notin {"", Undefined}
                                  /\ q.status \in Statuses \cup {Undefined},
                 "permission")
      [] q.pc = "permission" ->
           LET e == EditAccessError(d, q, "You need edit permission to add tasks")
           IN IF e # NoResp THEN Reply(d, q, e) ELSE Goto(d, q, "create")
      [] q.pc = "create" ->
           IF ForeignKeyViolation(d, q.taskListId)
           THEN \* tasks_taskListId_fkey refuses the insert
                Reply(d, q, Err(500, "Failed to create task"))
           ELSE LET task == NewTask(d, q)
                IN Reply([d EXCEPT !.tasks = @ \cup {task},
                                   !.nextTaskId = @ + 1],
                         q, [Ok(201) EXCEPT !.tasks = <<task>>])

\* The lookup that only checks that the task exists.
TaskErrorExistsOnly(d, q) ==
    IF ~Exists(d.tasks, q.taskId) THEN Err(404, "Task not found") ELSE NoResp

\* The lookup the three routes on one task share: the error it answers, or
\* NoResp when the task exists and belongs to the list of the path.
TaskError(d, q) ==
    IF ~Exists(d.tasks, q.taskId) THEN Err(404, "Task not found")
    ELSE IF Row(d.tasks, q.taskId).taskListId # q.taskListId
    THEN Err(400, "Task does not belong to this task list")
    ELSE NoResp

\* The update that leaves the status of a completed task.
UpdatedTaskNoReopen(t, q) ==
    [t EXCEPT !.title = IF q.title # Undefined THEN q.title ELSE @,
              !.description = IF q.description # Undefined THEN q.description ELSE @,
              !.status = IF q.status # Undefined /\ @ # "completed" THEN q.status
                         ELSE @]

\* The update that writes every field of the request, present or not.
UpdatedTaskOverwrite(t, q) ==
    [t EXCEPT !.title = q.title, !.description = q.description,
              !.status = q.status]

\* The row after prisma.task.update with the fields the request carries.
UpdatedTask(t, q) ==
    [t EXCEPT !.title = IF q.title # Undefined THEN q.title ELSE @,
              !.description = IF q.description # Undefined THEN q.description ELSE @,
              !.status = IF q.status # Undefined THEN q.status ELSE @]

\* PUT /api/tasks/:taskListId/:taskId
UpdateTask(d, q) ==
    CASE q.pc = "start" ->
           Enter(d, Sanitized(q),
                 Trim(q.title) # "" /\ q.status \in Statuses \cup {Undefined},
                 "permission")
      [] q.pc = "permission" ->
           LET e == EditAccessError(d, q, "You need edit permission to update tasks")
           IN IF e # NoResp THEN Reply(d, q, e) ELSE Goto(d, q, "findTask")
      [] q.pc = "findTask" ->
           IF TaskError(d, q) # NoResp THEN Reply(d, q, TaskError(d, q))
           ELSE Goto(d, q, "update")
      [] q.pc = "update" ->
           IF ~Exists(d.tasks, q.taskId)
           THEN Reply(d, q, Err(500, "Failed to update task"))
           ELSE LET task == UpdatedTask(Row(d.tasks, q.taskId), q)
                IN Reply([d EXCEPT !.tasks = {IF t.id = q.taskId THEN task ELSE t :
                                              t \in d.tasks}],
                         q, [Ok(200) EXCEPT !.tasks = <<task>>])

\* The status change that also clears the title.
StatusChangedClearsTitle(t, q) == [t EXCEPT !.status = q.status, !.title = ""]

\* The row after prisma.task.update with data { status }.
StatusChanged(t, q) == [t EXCEPT !.status = q.status]

\* PATCH /api/tasks/:taskListId/:taskId/status
UpdateTaskStatus(d, q) ==
    CASE q.pc = "start" -> Enter(d, q, q.status \in Statuses, "permission")
      [] q.pc = "permission" ->
           LET e == EditAccessError(d, q,
                      "You need edit permission to update task status")
           IN IF e # NoResp THEN Reply(d, q, e) ELSE Goto(d, q, "findTask")
      [] q.pc = "findTask" ->
           IF TaskError(d, q) # NoResp THEN Reply(d, q, TaskError(d, q))
           ELSE Goto(d, q, "update")
      [] q.pc = "update" ->
           IF ~Exists(d.tasks, q.taskId)
           THEN Reply(d, q, Err(500, "Failed to update task status"))
           ELSE LET task == StatusChanged(Row(d.tasks, q.taskId), q)
                IN Reply([d EXCEPT !.tasks = {IF t.id = q.taskId THEN task ELSE t :
                                              t \in d.tasks}],
                         q, [Ok(200) EXCEPT !.tasks = <<task>>])

\* The delete whose failing prisma call is not caught: no response is sent.
DeleteTaskNoCatch(d, q) ==
    CASE q.pc = "start" -> Enter(d, q, TRUE, "permission")
      [] q.pc = "permission" ->
           LET e == EditAccessError(d, q, "You need edit permission to delete tasks")
           IN IF e # NoResp THEN Reply(d, q, e) ELSE Goto(d, q, "findTask")
      [] q.pc = "findTask" ->
           IF TaskError(d, q) # NoResp THEN Reply(d, q, TaskError(d, q))
           ELSE Goto(d, q, "delete")
      [] q.pc = "delete" ->
           IF ~Exists(d.tasks, q.taskId) THEN Res(d, q)
           ELSE Reply([d EXCEPT !.tasks = {t \in d.tasks : t.id # q.taskId}],
                      q, Ok(200))

\* DELETE /api/tasks/:taskListId/:taskId
DeleteTask(d, q) ==
    CASE q.pc = "start" -> Enter(d, q, TRUE, "permission")
      [] q.pc = "permission" ->
           LET e == EditAccessError(d, q, "You need edit permission to delete tasks")
           IN IF e # NoResp THEN Reply(d, q, e) ELSE Goto(d, q, "findTask")
      [] q.pc = "findTask" ->
           IF TaskError(d, q) # NoResp THEN Reply(d, q, TaskError(d, q))
           ELSE Goto(d, q, "delete")
      [] q.pc = "delete" ->
           IF ~Exists(d.tasks, q.taskId)
           THEN Reply(d, q, Err(500, "Failed to delete task"))
           ELSE Reply([d EXCEPT !.tasks = {t \in d.tasks : t.id # q.taskId}],
                      q, Ok(200))

\* ------------------------------------------------------------ routes/tasklists.js
\* The inserted row owned by the first user, whoever sent the request.
NewTaskListOfFirstUser(d, q) ==
    [id |-> d.nextListId, title |-> q.title, ownerId |-> 1]

\* The row prisma.taskList.create inserts: data: { title, ownerId: userId }.
NewTaskList(d, q) ==
    [id |-> d.nextListId, title |-> q.title, ownerId |-> q.userId]

\* POST /api/tasklists
CreateTaskList(d, q) ==
    CASE q.pc = "start" -> Enter(d, Sanitized(q), Trim(q.title) # "", "create")
      [] q.pc = "create" ->
           Reply([d EXCEPT !.taskLists = @ \cup {NewTaskList(d, q)},
                           !.nextListId = @ + 1],
                 [q EXCEPT !.taskListId = d.nextListId],
                 [Ok(201) EXCEPT !.permission = "owner", !.isOwner = TRUE])

\* The annotation that marks every list as owned.
AnnotatedAsOwner(taskList, permission, isOwner) ==
    [id |-> taskList.id, title |-> taskList.title, ownerId |-> taskList.ownerId,
     permission |-> "owner", isOwner |-> TRUE]

\* A list row of a response, annotated with the caller's tier.
Annotated(taskList, permission, isOwner) ==
    [id |-> taskList.id, title |-> taskList.title, ownerId |-> taskList.ownerId,
     permission |-> permission, isOwner |-> isOwner]

\* GET /api/tasklists
GetTaskLists(d, q) ==
    CASE q.pc = "start" -> Enter(d, q, TRUE, "findOwned")
      [] q.pc = "findOwned" ->
           Res(d, [q EXCEPT !.pc = "findShared",
                            !.owned = NewestFirst({l \in d.taskLists :
                                                    l.ownerId = q.userId})])
      [] q.pc = "findShared" ->
           LET sharedTaskLists == InsertionOrder({s \in d.shares :
                                                   s.userId = q.userId})
               owned == [i \in DOMAIN q.owned |->
                           Annotated(q.owned[i], "owner", TRUE)]
               shared == [i \in DOMAIN sharedTaskLists |->
                            Annotated(Row(d.taskLists, sharedTaskLists[i].taskListId),
                                      sharedTaskLists[i].permission, FALSE)]
           IN Reply(d, q, [Ok(200) EXCEPT !.owned = owned, !.shared = shared,
                                          !.all = owned \o shared])

\* The find that finds no share.
ListShareOfNone(d, taskList, userId) == {}

\* taskList.shares.find(s => s.userId === userId)
ListShareOf(d, taskList, userId) ==
    {s \in SharesOn(d, taskList.id) : s.userId = userId}

\* GET /api/tasklists/:id
GetTaskList(d, q) ==
    CASE q.pc = "start" -> Enter(d, q, TRUE, "findList")
      [] q.pc = "findList" ->
           IF ~Exists(d.taskLists, q.taskListId)
           THEN Reply(d, q, Err(404, "Task list not found"))
           ELSE LET taskList == Row(d.taskLists, q.taskListId)
                    isOwner == taskList.ownerId = q.userId
                    share == ListShareOf(d, taskList, q.userId)
                IN IF ~isOwner /\ share = {}
                   THEN Reply(d, q, Err(403, "You do not have access to this task list"))
                   ELSE Reply(d, q, [Ok(200) EXCEPT
                          !.permission = IF isOwner THEN "owner"
                                         ELSE First(share).permission,
                          !.isOwner = isOwner,
                          !.tasks = NewestFirst(TasksOf(d, taskList.id)),
                          !.shares = InsertionOrder(SharesOn(d, taskList.id))])

\* The owner check that lets a holder of an edit share through.
OwnerErrorEditAllowed(d, q, message) ==
    IF ~Exists(d.taskLists, q.taskListId) THEN Err(404, "Task list not found")
    ELSE IF /\ Row(d.taskLists, q.taskListId).ownerId # q.userId
            /\ ~\E s \in SharesOf(d, q.taskListId, q.userId) : s.permission = "edit"
    THEN Err(403, message)
    ELSE NoResp

\* The owner check that only looks the list up.
OwnerErrorExistsOnly(d, q, message) ==
    IF ~Exists(d.taskLists, q.taskListId) THEN Err(404, "Task list not found")
    ELSE NoResp

\* The owner check that lets every holder of a share through.
OwnerErrorShareHolder(d, q, message) ==
    IF ~Exists(d.taskLists, q.taskListId) THEN Err(404, "Task list not found")
    ELSE IF /\ Row(d.taskLists, q.taskListId).ownerId # q.userId
            /\ SharesOf(d, q.taskListId, q.userId) = {}
    THEN Err(403, message)
    ELSE NoResp

\* The check the owner-only routes start with: findUnique of the list, 404 when
\* it is absent, 403 with the route's message when the caller is not its owner.
OwnerError(d, q, message) ==
    IF ~Exists(d.taskLists, q.taskListId) THEN Err(404, "Task list not found")
    ELSE IF Row(d.taskLists, q.taskListId).ownerId # q.userId THEN Err(403, message)
    ELSE NoResp

\* The update that also hands the list to another user.
UpdatedTaskListHandsOver(l, q) ==
    [l EXCEPT !.title = q.title, !.ownerId = (@ % MaxUsers) + 1]

\* The row after prisma.taskList.update with data: { title }.
UpdatedTaskList(l, q) == [l EXCEPT !.title = q.title]

\* PUT /api/tasklists/:id
UpdateTaskList(d, q) ==
    CASE q.pc = "start" -> Enter(d, Sanitized(q), Trim(q.title) # "", "findList")
      [] q.pc = "findList" ->
           LET e == OwnerError(d, q, "Only the owner can update the task list")
           IN IF e # NoResp THEN Reply(d, q, e) ELSE Goto(d, q, "update")
      [] q.pc = "update" ->
           IF ~Exists(d.taskLists, q.taskListId)
           THEN \* the record to update is gone: prisma throws
                Reply(d, q, Err(500, "Failed to update task list"))
           ELSE Reply([d EXCEPT !.taskLists =
                         {IF l.id = q.taskListId THEN UpdatedTaskList(l, q)
                          ELSE l : l \in d.taskLists}],
                      q, [Ok(200) EXCEPT !.permission = "owner", !.isOwner = TRUE])

\* The delete without ON DELETE CASCADE on tasks_taskListId_fkey.
DeleteListKeepTasks(d, id) ==
    [d EXCEPT !.taskLists = {l \in @ : l.id # id},
              !.shares = {s \in @ : s.taskListId # id}]

\* The store after prisma.taskList.delete of id: the row, and by ON DELETE
\* CASCADE of tasks_taskListId_fkey and task_list_shares_taskListId_fkey the
\* tasks and shares that reference it.
DeleteListCascade(d, id) ==
    [d EXCEPT !.taskLists = {l \in @ : l.id # id},
              !.tasks = {t \in @ : t.taskListId # id},
              !.shares = {s \in @ : s.taskListId # id}]

\* The delete that removes the list before it looks at the caller.
DeleteTaskListBeforeCheck(d, q) ==
    CASE q.pc = "start" -> Enter(d, q, TRUE, "findList")
      [] q.pc = "findList" ->
           LET e == OwnerError(d, q, "Only the owner can delete the task list")
           IN IF e # NoResp THEN Reply(DeleteListCascade(d, q.taskListId), q, e)
              ELSE Goto(d, q, "delete")
      [] q.pc = "delete" ->
           IF ~Exists(d.taskLists, q.taskListId)
           THEN Reply(d, q, Err(500, "Failed to delete task list"))
           ELSE Reply(DeleteListCascade(d, q.taskListId), q, Ok(200))

\* DELETE /api/tasklists/:id
DeleteTaskList(d, q) ==
    CASE q.pc = "start" -> Enter(d, q, TRUE, "findList")
      [] q.pc = "findList" ->
           LET e == OwnerError(d, q, "Only the owner can delete the task list")
           IN IF e # NoResp THEN Reply(d, q, e) ELSE Goto(d, q, "delete")
      [] q.pc = "delete" ->
           IF ~Exists(d.taskLists, q.taskListId)
           THEN Reply(d, q, Err(500, "Failed to delete task list"))
           ELSE Reply(DeleteListCascade(d, q.taskListId), q, Ok(200))

\* ------------------------------------------------------------ routes/shares.js
\* The relation without its unique index.
NoUniqueShareIndex(d, taskListId, userId) == FALSE

\* task_list_shares_taskListId_userId_key: the unique index refuses a second
\* row for the pair.
UniqueShareViolation(d, taskListId, userId) == SharesOf(d, taskListId, userId) # {}

\* The lookup of the user to share with, without the self-share check.
ShareTargetErrorNoSelf(d, q) ==
    IF UserByEmail(d, q.email) = {}
    THEN Err(404, "User with this email is not registered in the system")
    ELSE NoResp

\* The existing-share lookup that finds nothing.
ExistingShareNone(d, taskListId, userId) == {}

\* The lookup of the user to share with: the error the route answers, or NoResp
\* when the email is registered and is not the caller's.
ShareTargetError(d, q) ==
    IF UserByEmail(d, q.email) = {}
    THEN Err(404, "User with this email is not registered in the system")
    ELSE IF First(UserByEmail(d, q.email)).id = q.userId
    THEN Err(400, "You cannot share a task list with yourself")
    ELSE NoResp

\* existingShare: findUnique by taskListId_userId.
ExistingShare(d, taskListId, userId) == SharesOf(d, taskListId, userId)

\* The inserted row with permission view whatever the request asks.
NewShareViewOnly(d, q) ==
    [id |-> d.nextShareId, taskListId |-> q.taskListId, userId |-> q.targetId,
     permission |-> "view"]

\* The row prisma.taskListShare.create inserts.
NewShare(d, q) ==
    [id |-> d.nextShareId, taskListId |-> q.taskListId, userId |-> q.targetId,
     permission |-> q.permission]

\* POST /api/shares/:taskListId
ShareTaskList(d, q) ==
    CASE q.pc = "start" ->
           Enter(d, q, q.email # InvalidEmail /\ ValidPermission(q.permission),
                 "findList")
      [] q.pc = "findList" ->
           LET e == OwnerError(d, q, "Only the owner can share the task list")
           IN IF e # NoResp THEN Reply(d, q, e) ELSE Goto(d, q, "findUser")
      [] q.pc = "findUser" ->
           IF ShareTargetError(d, q) # NoResp
           THEN Reply(d, q, ShareTargetError(d, q))
           ELSE Res(d, [q EXCEPT !.pc = "findShare",
                                 !.targetId = First(UserByEmail(d, q.email)).id])
      [] q.pc = "findShare" ->
           IF ExistingShare(d, q.taskListId, q.targetId) # {}
           THEN Reply(d, q, Err(400, "Task list is already shared with this user"))
           ELSE Goto(d, q, "create")
      [] q.pc = "create" ->
           IF \/ UniqueShareViolation(d, q.taskListId, q.targetId)
              \/ ForeignKeyViolation(d, q.taskListId)
           THEN \* the unique index or the foreign key refuses the insert:
                \* prisma throws and the catch answers 500
                Reply(d, q, Err(500, "Failed to share task list"))
           ELSE LET share == NewShare(d, q)
                IN Reply([d EXCEPT !.shares = @ \cup {share},
                                   !.nextShareId = @ + 1],
                         q, [Ok(201) EXCEPT !.shares = <<share>>])

\* GET /api/shares/:taskListId
GetShares(d, q) ==
    CASE q.pc = "start" -> Enter(d, q, TRUE, "findList")
      [] q.pc = "findList" ->
           LET e == OwnerError(d, q, "Only the owner can view shared users")
           IN IF e # NoResp THEN Reply(d, q, e) ELSE Goto(d, q, "findMany")
      [] q.pc = "findMany" ->
           Reply(d, q, [Ok(200) EXCEPT
                          !.shares = NewestFirst(SharesOn(d, q.taskListId))])

\* The lookup that only checks that the share exists.
ShareErrorExistsOnly(d, q) ==
    IF ~Exists(d.shares, q.shareId) THEN Err(404, "Share not found") ELSE NoResp

\* The lookup the two routes on one share make: the error it answers, or
\* NoResp when the share exists and belongs to the list of the path.
ShareError(d, q) ==
    IF ~Exists(d.shares, q.shareId) THEN Err(404, "Share not found")
    ELSE IF Row(d.shares, q.shareId).taskListId # q.taskListId
    THEN Err(400, "Share does not belong to this task list")
    ELSE NoResp

\* PUT /api/shares/:taskListId/:shareId
UpdateShare(d, q) ==
    CASE q.pc = "start" -> Enter(d, q, ValidPermission(q.permission), "findList")
      [] q.pc = "findList" ->
           LET e == OwnerError(d, q, "Only the owner can update permissions")
           IN IF e # NoResp THEN Reply(d, q, e) ELSE Goto(d, q, "findShare")
      [] q.pc = "findShare" ->
           IF ShareError(d, q) # NoResp THEN Reply(d, q, ShareError(d, q))
           ELSE Goto(d, q, "update")
      [] q.pc = "update" ->
           IF ~Exists(d.shares, q.shareId)
           THEN Reply(d, q, Err(500, "Failed to update permission"))
           ELSE LET share == [Row(d.shares, q.shareId) EXCEPT
                                !.permission = q.permission]
                IN Reply([d EXCEPT !.shares = {IF s.id = q.shareId THEN share ELSE s :
                                               s \in d.shares}],
                         q, [Ok(200) EXCEPT !.shares = <<share>>])

\* The revoke that answers 200 and leaves the share.
DeleteShareKeepsRow(d, q) ==
    CASE q.pc = "start" -> Enter(d, q, TRUE, "findList")
      [] q.pc = "findList" ->
           LET e == OwnerError(d, q, "Only the owner can remove access")
           IN IF e # NoResp THEN Reply(d, q, e) ELSE Goto(d, q, "findShare")
      [] q.pc = "findShare" ->
           IF ShareError(d, q) # NoResp THEN Reply(d, q, ShareError(d, q))
           ELSE Goto(d, q, "delete")
      [] q.pc = "delete" -> Reply(d, q, Ok(200))

\* DELETE /api/shares/:taskListId/:shareId
DeleteShare(d, q) ==
    CASE q.pc = "start" -> Enter(d, q, TRUE, "findList")
      [] q.pc = "findList" ->
           LET e == OwnerError(d, q, "Only the owner can remove access")
           IN IF e # NoResp THEN Reply(d, q, e) ELSE Goto(d, q, "findShare")
      [] q.pc = "findShare" ->
           IF ShareError(d, q) # NoResp THEN Reply(d, q, ShareError(d, q))
           ELSE Goto(d, q, "delete")
      [] q.pc = "delete" ->
           IF ~Exists(d.shares, q.shareId)
           THEN Reply(d, q, Err(500, "Failed to remove access"))
           ELSE Reply([d EXCEPT !.shares = {s \in d.shares : s.id # q.shareId}],
                      q, Ok(200))

\* ------------------------------------------------------------ server.js
\* app.use('/api/auth' | '/api/tasklists' | '/api/tasks' | '/api/shares'):
\* one statement of the handler the request is routed to.
Handle(d, q) ==
    CASE q.kind = "register" -> Register(d, q)
      [] q.kind = "login" -> Login(d, q)
      [] q.kind = "createTaskList" -> CreateTaskList(d, q)
      [] q.kind = "getTaskLists" -> GetTaskLists(d, q)
      [] q.kind = "getTaskList" -> GetTaskList(d, q)
      [] q.kind = "updateTaskList" -> UpdateTaskList(d, q)
      [] q.kind = "deleteTaskList" -> DeleteTaskList(d, q)
      [] q.kind = "getTasks" -> GetTasks(d, q)
      [] q.kind = "getUserPermission" -> ResolveTier(d, q)
      [] q.kind = "createTask" -> CreateTask(d, q)
      [] q.kind = "updateTask" -> UpdateTask(d, q)
      [] q.kind = "updateTaskStatus" -> UpdateTaskStatus(d, q)
      [] q.kind = "deleteTask" -> DeleteTask(d, q)
      [] q.kind = "shareTaskList" -> ShareTaskList(d, q)
      [] q.kind = "getShares" -> GetShares(d, q)
      [] q.kind = "updateShare" -> UpdateShare(d, q)
      [] q.kind = "deleteShare" -> DeleteShare(d, q)

\* The handler run to its response with no other request in between.
RECURSIVE Run(_, _)
Run(d, q) ==
    IF q.pc = "done" THEN Res(d, q)
    ELSE LET o == Handle(d, q) IN Run(o.db, o.q)

\* The response of request q served on store d.
ResponseTo(d, q) == Run(d, q).q.resp

\* ------------------------------------------------------------ the requests
Request(kind, auth) ==
    [Blank EXCEPT !.kind = kind, !.pc = "start", !.scheme = auth.scheme,
                  !.token = auth.token]

\* Bearer tokens that verify: the caller is, or claims to be, user a.token.
Tokens == {a \in AuthInputs : a.token # 0}

Routes == {"createTaskList", "getTaskLists", "getTaskList", "updateTaskList", "deleteTaskList",
           "getTasks", "createTask", "updateTask", "updateTaskStatus",
           "deleteTask", "shareTaskList", "getShares", "updateShare",
           "deleteShare"}

\* Requests that authenticate answers itself, whatever they carry.
Unauthenticated == {Request(k, a) : k \in Routes, a \in AuthInputs \ Tokens}

RegisterRequests ==
    {[Request("register", [scheme |-> "none", token |-> 0])
        EXCEPT !.email = e, !.password = "secret1"] :
       e \in Emails \cup {InvalidEmail}}

\* Registrations and logins with every email and password.
Credentials(kind) ==
    {[Request(kind, [scheme |-> "none", token |-> 0])
        EXCEPT !.email = e, !.password = p] :
       e \in Emails \cup {UnregisteredEmail, InvalidEmail},
       p \in Passwords \cup {ShortPassword, NoPassword}}

CreateTaskListRequests(titles) ==
    {[Request("createTaskList", a) EXCEPT !.title = t] : a \in Tokens, t \in titles}

GetTaskListsRequests == {Request("getTaskLists", a) : a \in Tokens}

OnList(kind) ==
    {[Request(kind, a) EXCEPT !.taskListId = l] : a \in Tokens, l \in ListIds}

UpdateTaskListRequests(titles) ==
    {[q EXCEPT !.title = t] : q \in OnList("updateTaskList"), t \in titles}

CreateTaskRequests(titles, descriptions, statuses) ==
    {[q EXCEPT !.title = t, !.description = x, !.status = s] :
       q \in OnList("createTask"), t \in titles, x \in descriptions, s \in statuses}

OnTask(kind) == {[q EXCEPT !.taskId = t] : q \in OnList(kind), t \in TaskIds}

UpdateTaskRequests(titles, descriptions, statuses) ==
    {[q EXCEPT !.title = t, !.description = x, !.status = s] :
       q \in OnTask("updateTask"), t \in titles, x \in descriptions, s \in statuses}

UpdateTaskStatusRequests(statuses) ==
    {[q EXCEPT !.status = s] : q \in OnTask("updateTaskStatus"), s \in statuses}

ShareTaskListRequests ==
    {[q EXCEPT !.email = e, !.permission = p] :
       q \in OnList("shareTaskList"),
       e \in Emails \cup {UnregisteredEmail, InvalidEmail},
       p \in Permissions \cup {InvalidPermission}}

OnShare(kind) == {[q EXCEPT !.shareId = s] : q \in OnList(kind), s \in ShareIds}

UpdateShareRequests ==
    {[q EXCEPT !.permission = p] :
       q \in OnShare("updateShare"), p \in Permissions \cup {InvalidPermission}}

\* ------------------------------------------------------------ the server
Idle(r) == req[r].pc = "idle"

Answered(r) == req[r].pc = "done"

InFlight(r) == ~Idle(r) /\ ~Answered(r)

\* The bounds of the model: the rows ever inserted.
WithinBounds(d) ==
    /\ Cardinality(d.users) <= MaxUsers
    /\ d.nextListId <= MaxLists + 1
    /\ d.nextTaskId <= MaxTasks + 1
    /\ d.nextShareId <= MaxShares + 1

\* ------------------------------------------------------------ Dashboard
\* Task fetches the Dashboard sends in one run.
MaxFetches == 2

\* useState(null) of selectedTaskList.
NoneSelected ==
    [id |-> 0, title |-> "", ownerId |-> 0, permission |-> Null, isOwner |-> FALSE]

\* No response of a task fetch received yet.
NoFetch == [taskListId |-> 0, status |-> 0, permission |-> Null]

\* The Dashboard before it is mounted: token is localStorage's token (0: none),
\* the rest the initial useState values; fetches are the calls of fetchTasks
\* whose await has not returned, response the one the last of them received.
Unmounted ==
    [token |-> 0, loading |-> FALSE, taskLists |-> <<>>,
     selectedTaskList |-> NoneSelected, tasks |-> <<>>,
     fetches |-> {}, sent |-> 0, response |-> NoFetch]

\* canEdit of the render.
canEdit ==
    /\ dash.selectedTaskList # NoneSelected
    /\ dash.selectedTaskList.permission \in {"owner", "edit"}

\* The Dashboard is mounted by a logged-in user: useEffect(() =>
\* fetchTaskLists(), []) sends GET /api/tasklists.
Mount(u) ==
    /\ dash = Unmounted
    /\ \E x \in db.users : x.id = u
    /\ dash' = [dash EXCEPT !.token = u, !.loading = TRUE]
    /\ UNCHANGED <<db, req>>

\* fetchTaskLists: the server answers and setTaskLists(response.data.all).
fetchTaskLists ==
    /\ dash.loading
    /\ LET r == ResponseTo(db, Request("getTaskLists",
                                      [scheme |-> "bearer", token |-> dash.token]))
       IN dash' = [dash EXCEPT !.loading = FALSE,
                               !.taskLists = IF r.status = 200 THEN r.all ELSE @]
    /\ UNCHANGED <<db, req>>

\* onClick={() => setSelectedTaskList(list)} on a row of the rendered lists,
\* and the effect on [selectedTaskList]: fetchTasks(selectedTaskList.id) sends
\* GET /api/tasks/:taskListId.
Select(i) ==
    /\ dash.token # 0
    /\ ~dash.loading
    /\ i \in DOMAIN dash.taskLists
    /\ dash.taskLists[i] # dash.selectedTaskList
    /\ dash.sent < MaxFetches
    /\ dash' = [dash EXCEPT !.selectedTaskList = dash.taskLists[i],
                            !.sent = @ + 1,
                            !.fetches = @ \cup {[n |-> dash.sent + 1,
                                                 taskListId |-> dash.taskLists[i].id,
                                                 resp |-> NoResp]}]
    /\ UNCHANGED <<db, req>>

\* The server answers a task fetch that is on its way.
AnswerFetch(f) ==
    /\ f \in dash.fetches
    /\ f.resp = NoResp
    /\ LET q == [Request("getTasks", [scheme |-> "bearer", token |-> dash.token])
                  EXCEPT !.taskListId = f.taskListId]
       IN dash' = [dash EXCEPT !.fetches =
                     (@ \ {f}) \cup {[f EXCEPT !.resp = ResponseTo(db, q)]}]
    /\ UNCHANGED <<db, req>>

\* fetchTasks after its await: setTasks(response.data.tasks || []), or the
\* catch, which leaves the state as it is.
fetchTasks(f) ==
    /\ f \in dash.fetches
    /\ f.resp # NoResp
    /\ dash' = [dash EXCEPT !.fetches = @ \ {f},
                            !.tasks = IF f.resp.status = 200 THEN f.resp.tasks
                                      ELSE @,
                            !.response = [taskListId |-> f.taskListId,
                                          status |-> f.resp.status,
                                          permission |-> f.resp.permission]]
    /\ UNCHANGED <<db, req>>

\* A request of another client, served from its arrival to its response.
Served(q) ==
    /\ WithinBounds(Run(db, q).db)
    /\ db' = Run(db, q).db
    /\ db' # db
    /\ UNCHANGED <<req, dash>>

\* A request is served from its arrival to its response, which req[r] holds
\* with the request until the connection is closed.
Serve(r, q) ==
    /\ Idle(r)
    /\ LET o == Run(db, q)
       IN /\ WithinBounds(o.db)
          /\ db' = o.db
          /\ req' = [req EXCEPT ![r] = o.q]
          /\ UNCHANGED dash

\* The response is sent and the request is gone.
Close(r) ==
    /\ Answered(r)
    /\ req' = [req EXCEPT ![r] = Blank]
    /\ UNCHANGED <<db, dash>>

Init ==
    /\ db = EmptyStore
    /\ req = [r \in Slots |-> Blank]
    /\ dash = Unmounted

\* The server handling one request at a time: registration, the task lists and
\* the share registry, and the task listing that resolves the caller's tier.
Next ==
    \/ \E q \in RegisterRequests : Serve(1, q)
    \/ \E q \in Unauthenticated : Serve(1, q)
    \/ \E q \in CreateTaskListRequests({"A", ""}) : Serve(1, q)
    \/ \E q \in OnList("deleteTaskList") : Serve(1, q)
    \/ \E q \in OnList("getTasks") : Serve(1, q)
    \/ \E q \in ShareTaskListRequests : Serve(1, q)
    \/ \E q \in OnList("getShares") : Serve(1, q)
    \/ \E q \in UpdateShareRequests : Serve(1, q)
    \/ \E q \in OnShare("deleteShare") : Serve(1, q)
    \/ Close(1)

Spec == Init /\ [][Next]_vars

\* The server handling one request at a time: the task routes, on lists that
\* are created and shared.
NextTasks ==
    \/ \E q \in RegisterRequests : Serve(1, q)
    \/ \E q \in CreateTaskListRequests({"A"}) : Serve(1, q)
    \/ \E q \in {x \in ShareTaskListRequests : /\ x.email # InvalidEmail
                                               /\ x.permission \in Permissions} :
         Serve(1, q)
    \/ \E q \in OnList("getTaskList") : Serve(1, q)
    \/ \E q \in OnList("getTasks") : Serve(1, q)
    \/ \E q \in CreateTaskRequests({"A", ""}, {Undefined}, {Undefined, InvalidStatus}) :
         Serve(1, q)
    \/ \E q \in UpdateTaskRequests({Undefined, "B"}, {Undefined},
                                    {Undefined, "completed"}) :
         Serve(1, q)
    \/ \E q \in UpdateTaskStatusRequests({"completed", "pending", InvalidStatus}) :
         Serve(1, q)
    \/ \E q \in OnTask("deleteTask") : Serve(1, q)
    \/ Close(1)

SpecTasks == Init /\ [][NextTasks]_vars

\* The server handling one request at a time: the task-list routes, on lists
\* that hold tasks and shares.
NextLists ==
    \/ \E q \in RegisterRequests : Serve(1, q)
    \/ \E q \in CreateTaskListRequests({"A", ""}) : Serve(1, q)
    \/ \E q \in GetTaskListsRequests : Serve(1, q)
    \/ \E q \in OnList("getTaskList") : Serve(1, q)
    \/ \E q \in UpdateTaskListRequests({"B", ""}) : Serve(1, q)
    \/ \E q \in OnList("deleteTaskList") : Serve(1, q)
    \/ \E q \in {x \in ShareTaskListRequests : x.email # InvalidEmail} : Serve(1, q)
    \/ \E q \in CreateTaskRequests({"A"}, {Undefined}, {Undefined}) : Serve(1, q)
    \/ Close(1)

SpecLists == Init /\ [][NextLists]_vars

\* The server handling one request at a time: grants, permission updates and
\* revokes, and the task routes whose answer depends on them.
NextAccess ==
    \/ \E q \in RegisterRequests : Serve(1, q)
    \/ \E q \in CreateTaskListRequests({"A"}) : Serve(1, q)
    \/ \E q \in {x \in ShareTaskListRequests : /\ x.email \in Emails
                                               /\ x.permission \in Permissions} :
         Serve(1, q)
    \/ \E q \in {x \in UpdateShareRequests : x.permission \in Permissions} :
         Serve(1, q)
    \/ \E q \in OnShare("deleteShare") : Serve(1, q)
    \/ \E q \in CreateTaskRequests({"A"}, {Undefined}, {Undefined}) : Serve(1, q)
    \/ \E q \in OnList("getTasks") : Serve(1, q)
    \/ Close(1)

SpecAccess == Init /\ [][NextAccess]_vars

\* ------------------------------------------------------------ interleaving
\* A request arrives in a free slot: authenticate and the validators run.
Begin(r, q) ==
    /\ \A s \in Slots : ~Answered(s)
    /\ Idle(r)
    /\ req' = [req EXCEPT ![r] = Handle(db, q).q]
    /\ UNCHANGED <<db, dash>>

\* The request in slot r runs its next prisma statement and the code up to
\* the following await, or up to its response.
Advance(r) ==
    /\ \A s \in Slots : ~Answered(s)
    /\ InFlight(r)
    /\ LET o == Handle(db, req[r])
       IN /\ WithinBounds(o.db)
          /\ db' = o.db
          /\ req' = [req EXCEPT ![r] = o.q]
          /\ UNCHANGED dash

\* Grants of view, permission updates to edit, and revokes.
RaceRequests ==
    {q \in ShareTaskListRequests : q.email \in Emails /\ q.permission = "view"}
    \cup {q \in UpdateShareRequests : q.permission = "edit"}
    \cup OnShare("deleteShare")

\* The server with two requests in flight: users and lists are set up one
\* request at a time, share requests interleave statement by statement.
NextRace ==
    \/ \E q \in {x \in RegisterRequests : x.email \in Emails} :
         Serve(1, q) /\ Idle(2)
    \/ \E q \in CreateTaskListRequests({"A"}) : Serve(1, q) /\ Idle(2)
    \/ \E r \in Slots, q \in RaceRequests : Begin(r, q)
    \/ \E r \in Slots : Advance(r)
    \/ \E r \in Slots : Close(r)

SpecRace == Init /\ [][NextRace]_vars

\* Task creates, revokes and list deletes.
TaskRaceRequests ==
    CreateTaskRequests({"A"}, {Undefined}, {Undefined})
    \cup OnShare("deleteShare")
    \cup OnList("deleteTaskList")

\* The server with two requests in flight: users, lists and edit shares are
\* set up one request at a time; task requests interleave statement by
\* statement with revokes and list deletes.
NextRaceTasks ==
    \/ \E q \in {x \in RegisterRequests : x.email \in Emails} :
         Serve(1, q) /\ Idle(2)
    \/ \E q \in CreateTaskListRequests({"A"}) : Serve(1, q) /\ Idle(2)
    \/ \E q \in {x \in ShareTaskListRequests : /\ x.email \in Emails
                                               /\ x.permission = "edit"} :
         Serve(1, q) /\ Idle(2)
    \/ \E r \in Slots, q \in TaskRaceRequests : Begin(r, q)
    \/ \E r \in Slots : Advance(r)
    \/ \E r \in Slots : Close(r)

SpecRaceTasks == Init /\ [][NextRaceTasks]_vars

\* The server with a resolver in flight in slot 2, reading the list and then
\* its shares, while grants, permission updates, revokes and list deletes are
\* served in slot 1 before, between and after the two reads.
NextSnapshot ==
    \/ \E q \in {x \in RegisterRequests : x.email \in Emails} :
         Serve(1, q) /\ ~Answered(2)
    \/ \E q \in CreateTaskListRequests({"A"}) : Serve(1, q) /\ ~Answered(2)
    \/ \E q \in {x \in ShareTaskListRequests : /\ x.email \in Emails
                                               /\ x.permission \in Permissions} :
         Serve(1, q) /\ ~Answered(2)
    \/ \E q \in {x \in UpdateShareRequests : x.permission \in Permissions} :
         Serve(1, q) /\ ~Answered(2)
    \/ \E q \in OnShare("deleteShare") : Serve(1, q) /\ ~Answered(2)
    \/ \E q \in OnList("deleteTaskList") : Serve(1, q) /\ ~Answered(2)
    \/ \E q \in OnList("getUserPermission") : Begin(2, q)
    \/ Advance(2)
    \/ \E r \in Slots : Close(r)

SpecSnapshot == Init /\ [][NextSnapshot]_vars

\* The server with two registrations in flight, interleaving statement by
\* statement.
NextRaceRegister ==
    \/ \E r \in Slots, q \in RegisterRequests : Begin(r, q)
    \/ \E r \in Slots : Advance(r)
    \/ \E r \in Slots : Close(r)

SpecRaceRegister == Init /\ [][NextRaceRegister]_vars

\* Task deletes, status changes and list deletes.
LiveRequests ==
    OnTask("deleteTask") \cup UpdateTaskStatusRequests({"completed"})
    \cup OnList("deleteTaskList")

\* The server with two requests in flight on lists and tasks that are set up
\* one request at a time.
NextLive ==
    \/ \E q \in {x \in RegisterRequests : x.email \in Emails} :
         Serve(1, q) /\ Idle(2)
    \/ \E q \in CreateTaskListRequests({"A"}) : Serve(1, q) /\ Idle(2)
    \/ \E q \in CreateTaskRequests({"A"}, {Undefined}, {Undefined}) :
         Serve(1, q) /\ Idle(2)
    \/ \E r \in Slots, q \in LiveRequests : Begin(r, q)
    \/ \E r \in Slots : Advance(r)
    \/ \E r \in Slots : Close(r)

\* The event loop runs, in turn, every continuation whose prisma call has
\* returned, however many other requests arrive and are answered meanwhile;
\* and a response that has been written is sent.
SpecLive ==
    /\ Init
    /\ [][NextLive]_vars
    /\ \A r \in Slots : SF_vars(Advance(r)) /\ WF_vars(Close(r))

\* The server handling one request at a time: tasks created with a description
\* and updated with titles and descriptions that are absent, empty, blank,
\* padded or a text.
NextUpdate ==
    \/ \E q \in {x \in RegisterRequests : x.email \in Emails} : Serve(1, q)
    \/ \E q \in CreateTaskListRequests({"A"}) : Serve(1, q)
    \/ \E q \in CreateTaskRequests({"A", Whitespace}, {"d"}, {Undefined}) :
         Serve(1, q)
    \/ \E q \in UpdateTaskRequests({Undefined, "", Whitespace, Padded},
                                    {Undefined, "", "d"}, {Undefined}) :
         Serve(1, q)
    \/ Close(1)

SpecUpdate == Init /\ [][NextUpdate]_vars

\* The server handling one request at a time: grants, permission updates and
\* task writes with permissions and statuses inside and outside their domains.
NextDomains ==
    \/ \E q \in {x \in RegisterRequests : x.email \in Emails} : Serve(1, q)
    \/ \E q \in CreateTaskListRequests({"A"}) : Serve(1, q)
    \/ \E q \in {x \in ShareTaskListRequests : x.email \in Emails} : Serve(1, q)
    \/ \E q \in UpdateShareRequests : Serve(1, q)
    \/ \E q \in CreateTaskRequests({"A"}, {Undefined},
                                    {Undefined, "in_progress", InvalidStatus}) :
         Serve(1, q)
    \/ \E q \in UpdateTaskRequests({Undefined}, {Undefined},
                                    {"completed", InvalidStatus}) :
         Serve(1, q)
    \/ \E q \in UpdateTaskStatusRequests({"pending", InvalidStatus}) : Serve(1, q)
    \/ Close(1)

SpecDomains == Init /\ [][NextDomains]_vars

\* Task updates, grants and list deletes.
ErrorRaceRequests ==
    UpdateTaskRequests({"B"}, {Undefined}, {Undefined})
    \cup {q \in ShareTaskListRequests : q.email \in Emails /\ q.permission = "view"}
    \cup OnList("deleteTaskList")

\* The server with two requests in flight: users, lists and tasks are set up
\* one request at a time; task updates, grants and list deletes interleave
\* statement by statement.
NextRaceErrors ==
    \/ \E q \in {x \in RegisterRequests : x.email \in Emails} :
         Serve(1, q) /\ Idle(2)
    \/ \E q \in CreateTaskListRequests({"A"}) : Serve(1, q) /\ Idle(2)
    \/ \E q \in CreateTaskRequests({"A"}, {Undefined}, {Undefined}) :
         Serve(1, q) /\ Idle(2)
    \/ \E r \in Slots, q \in ErrorRaceRequests : Begin(r, q)
    \/ \E r \in Slots : Advance(r)
    \/ \E r \in Slots : Close(r)

SpecRaceErrors == Init /\ [][NextRaceErrors]_vars

\* The users of the listings: a third address next to Emails.
ListingEmails == Emails \cup {"c@x.com"}

ListingTokens ==
    {[scheme |-> "bearer", token |-> u] : u \in 1..MaxListedUsers}

\* Requests on the first list by these users.
Listing(kind) ==
    {[Request(kind, a) EXCEPT !.taskListId = 1] : a \in ListingTokens}

WithinListingBounds(d) ==
    /\ Cardinality(d.users) <= MaxListedUsers
    /\ d.nextListId <= 2
    /\ d.nextTaskId <= MaxListedTasks + 1
    /\ d.nextShareId <= MaxListedShares + 1

\* A request served from its arrival to its response.
Listed(q) ==
    /\ Idle(1)
    /\ LET o == Run(db, q)
       IN /\ WithinListingBounds(o.db)
          /\ db' = o.db
          /\ req' = [req EXCEPT ![1] = o.q]
          /\ UNCHANGED dash

\* The server handling one request at a time on one list: tasks are created,
\* shares granted and revoked, and the tasks and the shares are listed.
NextListing ==
    \/ \E e \in ListingEmails :
         Listed([Request("register", [scheme |-> "none", token |-> 0])
                   EXCEPT !.email = e, !.password = "secret1"])
    \/ \E a \in ListingTokens :
         Listed([Request("createTaskList", a) EXCEPT !.title = "A"])
    \/ \E q \in Listing("createTask") :
         Listed([q EXCEPT !.title = "A", !.description = Undefined,
                          !.status = Undefined])
    \/ \E q \in Listing("shareTaskList"), e \in ListingEmails, p \in Permissions :
         Listed([q EXCEPT !.email = e, !.permission = p])
    \/ \E q \in Listing("deleteShare"), s \in 1..MaxListedShares :
         Listed([q EXCEPT !.shareId = s])
    \/ \E q \in Listing("getTasks") : Listed(q)
    \/ \E q \in Listing("getShares") : Listed(q)
    \/ Close(1)

SpecListing == Init /\ [][NextListing]_vars

\* The server handling one request at a time: registrations and logins.
NextLogin ==
    \/ \E q \in Credentials("register") : Serve(1, q)
    \/ \E q \in Credentials("login") : Serve(1, q)
    \/ Close(1)

SpecLogin == Init /\ [][NextLogin]_vars

\* One Dashboard and the server: other clients register, create lists and
\* tasks, grant shares and change their permission, each request served at
\* once, while the Dashboard loads its lists, selects among them and fetches
\* the tasks of the selected list.
NextDashboard ==
    \/ \E q \in {x \in RegisterRequests : x.email \in Emails} : Served(q)
    \/ \E q \in CreateTaskListRequests({"A"}) : Served(q)
    \/ \E q \in {x \in ShareTaskListRequests : /\ x.email \in Emails
                                               /\ x.permission \in Permissions} :
         Served(q)
    \/ \E q \in {x \in UpdateShareRequests : x.permission \in Permissions} :
         Served(q)
    \/ \E q \in CreateTaskRequests({"A"}, {Undefined}, {Undefined}) : Served(q)
    \/ \E u \in UserIds : Mount(u)
    \/ fetchTaskLists
    \/ \E i \in 1..MaxLists : Select(i)
    \/ \E f \in dash.fetches : AnswerFetch(f)
    \/ \E f \in dash.fetches : fetchTasks(f)

SpecDashboard == Init /\ [][NextDashboard]_vars

\* ------------------------------------------------------------ properties
\* The server is ready for a request: none is being served or answered.
Ready == Idle(1)

\* The response and the store of request q served in the current state.
Response(q) == Run(db, q).q.resp

StoreAfter(q) == Run(db, q).db

By(Q, u, l) == {q \in Q : q.token = u.id /\ q.taskListId = l.id}

HoldsShare(l, u, permission) ==
    \E s \in db.shares :
       s.taskListId = l.id /\ s.userId = u.id /\ s.permission = permission

ViewTier(l, u) == l.ownerId # u.id /\ HoldsShare(l, u, "view")

EditTier(l, u) == l.ownerId # u.id /\ HoldsShare(l, u, "edit")

NoTier(l, u) == l.ownerId # u.id /\ SharesOf(db, l.id, u.id) = {}

\* Well-formed requests: those the routes' validators let through.
ValidCreateTask == CreateTaskRequests(Titles, Descriptions, Statuses \cup {Undefined})

ValidUpdateTask ==
    UpdateTaskRequests(Titles \cup {Undefined}, Descriptions,
                       Statuses \cup {Undefined})

TaskWrites ==
    ValidCreateTask \cup ValidUpdateTask \cup UpdateTaskStatusRequests(Statuses)
    \cup OnTask("deleteTask")

ValidShare ==
    {q \in ShareTaskListRequests :
       q.email # InvalidEmail /\ q.permission \in Permissions}

ShareOps ==
    ValidShare \cup OnList("getShares")
    \cup {q \in UpdateShareRequests : q.permission \in Permissions}
    \cup OnShare("deleteShare")

\* C1: for every existing list and registered user the resolver returns
\* exactly one tier: owner iff the user owns the list, view (edit) iff the user
\* is not the owner and holds a share with permission view (edit), and no
\* access otherwise.
C1_TierResolution ==
    \A l \in db.taskLists, u \in db.users :
       LET p == GetUserPermission(db, l.id, u.id)
       IN /\ p.permission \in {"owner", "edit", "view", Null}
          /\ (p.permission = "owner") <=> (l.ownerId = u.id)
          /\ (p.permission = "view") <=> ViewTier(l, u)
          /\ (p.permission = "edit") <=> EditTier(l, u)
          /\ (p.permission = Null) <=> NoTier(l, u)
          /\ p.hasAccess <=> (p.permission # Null)
          /\ p.isOwner <=> (l.ownerId = u.id)

\* A task listing has resolved the tier of a user who holds an edit share on
\* one list and owns another.
C1_Witness ==
    /\ Answered(1)
    /\ req[1].kind = "getTasks"
    /\ req[1].resp.status = 200
    /\ req[1].resp.permission = "edit"
    /\ \E l \in db.taskLists :
          /\ l.ownerId = req[1].userId
          /\ GetUserPermission(db, l.id, req[1].userId).permission = "owner"

\* C2: for a user whose tier on a list is view, every well-formed task create,
\* update, status change and delete on the list is answered 403 and changes
\* nothing, while the task listing and the read of the list answer 200.
C2_ViewIsReadOnly ==
    Ready =>
      \A l \in db.taskLists, u \in db.users :
         ViewTier(l, u) =>
           /\ \A q \in By(TaskWrites, u, l) :
                 Response(q).status = 403 /\ StoreAfter(q) = db
           /\ \A q \in By(OnList("getTasks") \cup OnList("getTaskList"), u, l) :
                 /\ Response(q).status = 200
                 /\ Response(q).permission = "view"
                 /\ Response(q).tasks = NewestFirst(TasksOf(db, l.id))
                 /\ StoreAfter(q) = db

\* The delete of an existing task of the list by a view-tier user was answered
\* 403.
C2_Witness ==
    /\ Answered(1)
    /\ req[1].kind = "deleteTask"
    /\ req[1].resp = Err(403, "You need edit permission to delete tasks")
    /\ \E l \in db.taskLists, u \in db.users, t \in db.tasks :
          /\ l.id = req[1].taskListId /\ u.id = req[1].userId
          /\ ViewTier(l, u)
          /\ t.id = req[1].taskId /\ t.taskListId = l.id

\* C3: for a registered user who neither owns an existing list nor holds a
\* share on it, the task listing and every well-formed task create, update,
\* status change and delete on the list are answered 403, carry no task and
\* change nothing.
C3_NoTierIsForbidden ==
    Ready =>
      \A l \in db.taskLists, u \in db.users :
         NoTier(l, u) =>
           \A q \in By(TaskWrites \cup OnList("getTasks"), u, l) :
              /\ Response(q).status = 403
              /\ Response(q).tasks = <<>>
              /\ StoreAfter(q) = db

\* The listing of a list that holds a task, by a user with no tier on it, was
\* answered 403.
C3_Witness ==
    /\ Answered(1)
    /\ req[1].kind = "getTasks"
    /\ req[1].resp = Err(403, "You do not have access to this task list")
    /\ \E l \in db.taskLists, u \in db.users :
          /\ l.id = req[1].taskListId /\ u.id = req[1].userId
          /\ NoTier(l, u)
          /\ TasksOf(db, l.id) # {}

\* C4: the update of a list's title and the delete of a list are answered 200
\* only to the list's owner; to a registered user who is not the owner of
\* the existing list (edit, view or no tier) they are answered 403 and change
\* nothing: not the list, its tasks or its shares.
C4_OwnerOnlyListWrites ==
    Ready =>
      \A l \in db.taskLists, u \in db.users :
         \A q \in By(UpdateTaskListRequests(Titles) \cup OnList("deleteTaskList"),
                     u, l) :
            /\ Response(q).status = 200 => l.ownerId = u.id
            /\ l.ownerId # u.id =>
                 Response(q).status = 403 /\ StoreAfter(q) = db

\* The delete of a list that holds a task, by a holder of an edit share on it,
\* was answered 403.
C4_Witness ==
    /\ Answered(1)
    /\ req[1].kind = "deleteTaskList"
    /\ req[1].resp = Err(403, "Only the owner can delete the task list")
    /\ \E l \in db.taskLists, u \in db.users :
          /\ l.id = req[1].taskListId /\ u.id = req[1].userId
          /\ EditTier(l, u)
          /\ TasksOf(db, l.id) # {}

\* C5: grant, share listing, permission update and revoke by a registered
\* user who is not the owner of the existing list are answered 403 and change
\* nothing, whatever the target email (registered, unregistered, the caller's
\* own, already shared) and whatever the share id (missing, of another list,
\* of this list).
C5_ShareOpsOwnerOnly ==
    Ready =>
      \A l \in db.taskLists, u \in db.users :
         l.ownerId # u.id =>
           \A q \in By(ShareOps, u, l) :
              Response(q).status = 403 /\ StoreAfter(q) = db

\* A grant to an unregistered address by a non-owner of the list was answered
\* 403, not 404.
C5_Witness ==
    /\ Answered(1)
    /\ req[1].kind = "shareTaskList"
    /\ req[1].email = UnregisteredEmail
    /\ req[1].resp = Err(403, "Only the owner can share the task list")
    /\ \E l \in db.taskLists : l.id = req[1].taskListId /\ l.ownerId # req[1].userId

\* C6: a grant by the owner for a pair (list, user) that already has a share
\* is answered 400 "already shared" and changes nothing: the share keeps its
\* permission and stays the only share of the pair, also when the requested
\* permission differs.
C6_RegrantIsConflict ==
    Ready =>
      \A s \in db.shares, l \in db.taskLists, u \in db.users, o \in db.users :
         (s.taskListId = l.id /\ s.userId = u.id /\ l.ownerId = o.id) =>
           \A q \in By(ValidShare, o, l) :
              q.email = u.email =>
                /\ Response(q) = Err(400, "Task list is already shared with this user")
                /\ StoreAfter(q) = db
                /\ SharesOf(StoreAfter(q), l.id, u.id) = {s}

\* A grant with another permission than the one the pair's share holds was
\* answered 400 "already shared", and the share holds its permission.
C6_Witness ==
    /\ Answered(1)
    /\ req[1].kind = "shareTaskList"
    /\ req[1].resp = Err(400, "Task list is already shared with this user")
    /\ \E s \in db.shares :
          /\ s.taskListId = req[1].taskListId /\ s.userId = req[1].targetId
          /\ s.permission # req[1].permission

\* C7: no share's user owns the share's list, and a grant by the owner whose
\* target email is the owner's own is answered 400 "cannot share with
\* yourself" and creates no share.
C7_NoSelfShare ==
    /\ \A s \in db.shares, l \in db.taskLists :
          s.taskListId = l.id => s.userId # l.ownerId
    /\ Ready =>
         \A l \in db.taskLists, o \in db.users :
            l.ownerId = o.id =>
              \A q \in By(ValidShare, o, l) :
                 q.email = o.email =>
                   /\ Response(q) =
                        Err(400, "You cannot share a task list with yourself")
                   /\ StoreAfter(q) = db

\* The owner's grant to the owner's own address was answered 400.
C7_Witness ==
    /\ Answered(1)
    /\ req[1].kind = "shareTaskList"
    /\ req[1].resp = Err(400, "You cannot share a task list with yourself")
    /\ \E l \in db.taskLists, o \in db.users :
          /\ l.id = req[1].taskListId /\ l.ownerId = o.id
          /\ o.id = req[1].userId /\ o.email = req[1].email

\* C8: in every reachable state, whatever the interleaving of the statements
\* of grants, permission updates and revokes, no two shares have the same
\* list and the same user.
C8_OneSharePerPair ==
    \A s \in db.shares, t \in db.shares :
       (s.taskListId = t.taskListId /\ s.userId = t.userId) => s = t

\* Two grants for one pair both found no share; the unique index refused the
\* insert of the second, and the pair has the one share of the first.
C8_Witness ==
    \E r \in Slots :
       /\ Answered(r)
       /\ req[r].kind = "shareTaskList"
       /\ req[r].resp = Err(500, "Failed to share task list")
       /\ Cardinality(SharesOf(db, req[r].taskListId, req[r].targetId)) = 1

\* C9: of two concurrent grants by the owner for a pair without a share, the
\* one whose insert the unique index refuses is answered 409 (Conflict), not
\* an internal failure.
C9_LosingGrantIsConflict ==
    [][\A r \in Slots :
          (/\ req[r].kind = "shareTaskList"
           /\ req[r].pc = "create"
           /\ UniqueShareViolation(db, req[r].taskListId, req[r].targetId)
           /\ req'[r].pc = "done")
          => req'[r].resp.status = 409]_vars

\* The caller may write the tasks of the list: owner, or holder of an edit share.
CanEdit(l, u) == l.ownerId = u.id \/ EditTier(l, u)

\* C11: a task update by a user who may write the list changes exactly the
\* fields the request carries to the request's values and keeps every omitted
\* field, the id and the list of the task; no other task changes.
C11_PartialUpdate ==
    Ready =>
      \A t \in db.tasks, l \in db.taskLists, u \in db.users :
         (t.taskListId = l.id /\ CanEdit(l, u)) =>
           \A q \in By(ValidUpdateTask, u, l) :
              q.taskId = t.id =>
                /\ Response(q).status = 200
                /\ \E n \in StoreAfter(q).tasks :
                      /\ n.id = t.id /\ n.taskListId = t.taskListId
                      /\ n.title = IF q.title = Undefined THEN t.title ELSE q.title
                      /\ n.description = IF q.description = Undefined
                                         THEN t.description ELSE q.description
                      /\ n.status = IF q.status = Undefined THEN t.status
                                    ELSE q.status
                      /\ StoreAfter(q).tasks = (db.tasks \ {t}) \cup {n}
                      /\ Response(q).tasks = <<n>>

\* An update carrying only status "completed" was answered 200 for a task
\* whose title an earlier update had set: the title is still that title.
C11_Witness ==
    /\ Answered(1)
    /\ req[1].kind = "updateTask"
    /\ req[1].resp.status = 200
    /\ req[1].title = Undefined /\ req[1].description = Undefined
    /\ req[1].status = "completed"
    /\ \E t \in db.tasks :
          t.id = req[1].taskId /\ t.title = "B" /\ t.status = "completed"

\* C12: a task created with status omitted is stored with status pending and
\* is listed with status pending; a task created with a valid status is stored
\* and listed with that status.
C12_DefaultStatus ==
    Ready =>
      \A l \in db.taskLists, u \in db.users :
         CanEdit(l, u) =>
           \A q \in By(ValidCreateTask, u, l) :
              LET stored == StoreAfter(q).tasks \ db.tasks
                  status == IF q.status = Undefined THEN "pending" ELSE q.status
              IN /\ Response(q).status = 201
                 /\ Cardinality(stored) = 1
                 /\ \A t \in stored : t.taskListId = l.id /\ t.status = status
                 /\ \A g \in By(OnList("getTasks"), u, l) :
                       LET listed == Run(StoreAfter(q), g).q.resp.tasks
                       IN /\ Len(listed) > 0
                          /\ listed[1] \in stored
                          /\ listed[1].status = status

\* A create without status was answered 201 and the task is stored pending.
C12_Witness ==
    /\ Answered(1)
    /\ req[1].kind = "createTask"
    /\ req[1].resp.status = 201
    /\ req[1].status = Undefined
    /\ \E t \in db.tasks :
          /\ req[1].resp.tasks = <<t>>
          /\ t.taskListId = req[1].taskListId /\ t.status = "pending"

\* The owner's permission update of share s of list l to permission p.
UpdateOf(l, s, p) ==
    {q \in UpdateShareRequests :
       /\ q.token = l.ownerId /\ q.taskListId = l.id
       /\ q.shareId = s.id /\ q.permission = p}

\* The owner's revoke of share s of list l.
RevokeOf(l, s) ==
    {q \in OnShare("deleteShare") :
       q.token = l.ownerId /\ q.taskListId = l.id /\ q.shareId = s.id}

\* C13: while a non-owner holds a view share on a list, the holder's task
\* create is answered 403; after the owner's update of the share to edit has
\* been answered, the same create is answered 201; after the owner's revoke
\* has been answered, every task request and the read of the list by the
\* former holder are answered 403.
C13_AccessFollowsShare ==
    Ready =>
      \A l \in db.taskLists, u \in db.users, s \in db.shares :
         (s.taskListId = l.id /\ s.userId = u.id /\ s.permission = "view") =>
           \A upd \in UpdateOf(l, s, "edit"), rev \in RevokeOf(l, s) :
              LET updated == Run(db, upd)
                  revoked == Run(updated.db, rev)
              IN /\ updated.q.resp.status = 200
                 /\ revoked.q.resp.status = 200
                 /\ \A c \in By(ValidCreateTask, u, l) :
                       /\ Response(c).status = 403
                       /\ Run(updated.db, c).q.resp.status = 201
                       /\ Run(Run(Run(updated.db, c).db, rev).db, c).q.resp.status
                            = 403
                 /\ \A x \in By(TaskWrites \cup OnList("getTasks")
                                  \cup OnList("getTaskList"), u, l) :
                       Run(revoked.db, x).q.resp.status = 403

\* The only share ever granted is gone while its list is still there, and a
\* task create on the list by the user who does not own it was answered 403.
C13_Witness ==
    /\ Answered(1)
    /\ req[1].kind = "createTask"
    /\ req[1].resp = Err(403, "You do not have access to this task list")
    /\ db.nextShareId = 2 /\ db.shares = {}
    /\ db.nextListId = 2
    /\ \E l \in db.taskLists :
          /\ l.id = req[1].taskListId /\ l.ownerId # req[1].userId
          /\ TasksOf(db, l.id) # {}

\* Well-formed requests on one task: update, status change and delete.
OneTaskWrites ==
    ValidUpdateTask \cup UpdateTaskStatusRequests(Statuses) \cup OnTask("deleteTask")

\* C14: an update, status change or delete whose task belongs to another list
\* than the list of the path is answered 400 "does not belong" and changes
\* nothing, also for a caller with owner or edit tier on the list of the
\* path; a request changes or deletes a task only when its path names the
\* task's list and the caller has owner or edit tier on that list.
C14_TaskOfAnotherList ==
    Ready =>
      /\ \A t \in db.tasks, l \in db.taskLists, u \in db.users :
            (t.taskListId # l.id /\ CanEdit(l, u)) =>
              \A q \in By(OneTaskWrites, u, l) :
                 q.taskId = t.id =>
                   /\ Response(q) =
                        Err(400, "Task does not belong to this task list")
                   /\ StoreAfter(q) = db
      /\ \A t \in db.tasks, u \in db.users, q \in OneTaskWrites :
            (q.token = u.id /\ t \notin StoreAfter(q).tasks) =>
              /\ q.taskListId = t.taskListId
              /\ \E l \in db.taskLists : l.id = t.taskListId /\ CanEdit(l, u)

\* The owner of one list asked to delete, through that list, the task of
\* another list: the request was answered 400 and the task is still there.
C14_Witness ==
    /\ Answered(1)
    /\ req[1].kind = "deleteTask"
    /\ req[1].resp = Err(400, "Task does not belong to this task list")
    /\ \E t \in db.tasks, l \in db.taskLists :
          /\ t.id = req[1].taskId /\ t.taskListId # req[1].taskListId
          /\ l.id = req[1].taskListId /\ l.ownerId = req[1].userId

\* Well-formed requests on one share: permission update and revoke.
OneShareWrites ==
    {q \in UpdateShareRequests : q.permission \in Permissions}
    \cup OnShare("deleteShare")

\* C15: a permission update or revoke by the owner of a list is answered 404
\* when no share has the share id and 400 "does not belong" when the share is
\* of another list, and changes nothing in both cases; whatever the share id,
\* the owner's request leaves the shares of every other list as they were.
C15_ShareOfAnotherList ==
    Ready =>
      \A l \in db.taskLists, o \in db.users :
         l.ownerId = o.id =>
           \A q \in By(OneShareWrites, o, l) :
              /\ ~Exists(db.shares, q.shareId) =>
                    /\ Response(q) = Err(404, "Share not found")
                    /\ StoreAfter(q) = db
              /\ (\E s \in db.shares : s.id = q.shareId /\ s.taskListId # l.id) =>
                    /\ Response(q) =
                         Err(400, "Share does not belong to this task list")
                    /\ StoreAfter(q) = db
              /\ {s \in StoreAfter(q).shares : s.taskListId # l.id}
                   = {s \in db.shares : s.taskListId # l.id}

\* The owner of one list asked to set, through that list, the permission of
\* a share of another list to a permission it does not have: the request was
\* answered 400 and the share has the permission it had.
C15_Witness ==
    /\ Answered(1)
    /\ req[1].kind = "updateShare"
    /\ req[1].resp = Err(400, "Share does not belong to this task list")
    /\ \E s \in db.shares, l \in db.taskLists :
          /\ s.id = req[1].shareId /\ s.taskListId # req[1].taskListId
          /\ s.permission # req[1].permission
          /\ l.id = req[1].taskListId /\ l.ownerId = req[1].userId

\* C16: a grant by the owner of an existing list is answered, in this order:
\* 404 "not registered" when no user has the email; 400 "cannot share with
\* yourself" when the user is the owner; 400 "already shared" when the pair
\* has a share; otherwise 201, with exactly one share added, which is the
\* only share of the pair and has the requested permission.  The three
\* failing cases change nothing.
C16_GrantResolution ==
    Ready =>
      \A l \in db.taskLists, o \in db.users :
         l.ownerId = o.id =>
           \A q \in By(ValidShare, o, l) :
              LET target == {u \in db.users : u.email = q.email}
                  added == StoreAfter(q).shares \ db.shares
              IN IF target = {}
                 THEN /\ Response(q) =
                           Err(404, "User with this email is not registered in the system")
                      /\ StoreAfter(q) = db
                 ELSE IF o \in target
                 THEN /\ Response(q) =
                           Err(400, "You cannot share a task list with yourself")
                      /\ StoreAfter(q) = db
                 ELSE IF \E s \in db.shares, u \in target :
                            s.taskListId = l.id /\ s.userId = u.id
                 THEN /\ Response(q) =
                           Err(400, "Task list is already shared with this user")
                      /\ StoreAfter(q) = db
                 ELSE /\ Response(q).status = 201
                      /\ db.shares \subseteq StoreAfter(q).shares
                      /\ Cardinality(added) = 1
                      /\ \A n \in added, u \in target :
                            /\ n.taskListId = l.id /\ n.userId = u.id
                            /\ n.permission = q.permission
                            /\ SharesOf(StoreAfter(q), l.id, u.id) = {n}
                            /\ Response(q).shares = <<n>>

\* A grant of edit by the owner was answered 201 and the pair's share is the
\* one the response carries, with permission edit.
C16_Witness ==
    /\ Answered(1)
    /\ req[1].kind = "shareTaskList"
    /\ req[1].resp.status = 201
    /\ req[1].permission = "edit"
    /\ \E s \in db.shares :
          /\ req[1].resp.shares = <<s>>
          /\ s.permission = "edit"
          /\ SharesOf(db, req[1].taskListId, req[1].targetId) = {s}

\* The tier of user u on list l, stated from the store.
TierOf(l, u) ==
    IF l.ownerId = u.id THEN "owner"
    ELSE IF HoldsShare(l, u, "edit") THEN "edit"
    ELSE IF HoldsShare(l, u, "view") THEN "view"
    ELSE Null

\* C17: the read of one list is answered 404 when the list does not exist,
\* 403 when the caller's tier on it is none, and otherwise 200 with the
\* list's tasks and shares, permission equal to the caller's tier and isOwner
\* true exactly for the owner; it changes nothing.
C17_GetById ==
    Ready =>
      \A u \in db.users, q \in OnList("getTaskList") :
         q.token = u.id =>
           /\ StoreAfter(q) = db
           /\ IF ~\E l \in db.taskLists : l.id = q.taskListId
              THEN Response(q) = Err(404, "Task list not found")
              ELSE \A l \in db.taskLists :
                      l.id = q.taskListId =>
                        IF TierOf(l, u) = Null
                        THEN Response(q) =
                               Err(403, "You do not have access to this task list")
                        ELSE /\ Response(q).status = 200
                             /\ Response(q).permission = TierOf(l, u)
                             /\ Response(q).isOwner <=> (l.ownerId = u.id)
                             /\ Response(q).tasks = NewestFirst(TasksOf(db, l.id))
                             /\ {Response(q).shares[i] :
                                   i \in DOMAIN Response(q).shares}
                                  = SharesOn(db, l.id)

\* The read of a list by the holder of a view share on it was answered 200
\* with permission view, isOwner false, and the list's task and share.
C17_Witness ==
    /\ Answered(1)
    /\ req[1].kind = "getTaskList"
    /\ req[1].resp.status = 200
    /\ req[1].resp.permission = "view"
    /\ ~req[1].resp.isOwner
    /\ Len(req[1].resp.tasks) = 1
    /\ Len(req[1].resp.shares) = 1

\* The elements of a sequence.
Range(seq) == {seq[i] : i \in DOMAIN seq}

\* C18: the listing of a user's lists is answered 200 with: owned, the lists
\* the user owns, each once, with permission owner and isOwner true; shared,
\* the lists with a share for the user, each once, with the share's
\* permission and isOwner false; all, owned followed by shared, which holds
\* exactly the lists on which the user's tier is not none, none of them twice.
C18_ListAccessible ==
    Ready =>
      \A u \in db.users, q \in GetTaskListsRequests :
         q.token = u.id =>
           LET r == Response(q)
           IN /\ r.status = 200
              /\ StoreAfter(q) = db
              /\ Range(r.owned) =
                   {[id |-> l.id, title |-> l.title, ownerId |-> l.ownerId,
                     permission |-> "owner", isOwner |-> TRUE] :
                      l \in {x \in db.taskLists : x.ownerId = u.id}}
              /\ Range(r.shared) =
                   {[id |-> l.id, title |-> l.title, ownerId |-> l.ownerId,
                     permission |-> TierOf(l, u), isOwner |-> FALSE] :
                      l \in {x \in db.taskLists : SharesOf(db, x.id, u.id) # {}}}
              /\ r.all = r.owned \o r.shared
              /\ {x.id : x \in Range(r.all)} =
                   {l.id : l \in {x \in db.taskLists : TierOf(x, u) # Null}}
              /\ \A i \in DOMAIN r.all, j \in DOMAIN r.all :
                    r.all[i].id = r.all[j].id => i = j

\* The listing of a user who owns one list and holds a share on another was
\* answered with one owned list, one shared list and the two in all.
C18_Witness ==
    /\ Answered(1)
    /\ req[1].kind = "getTaskLists"
    /\ req[1].resp.status = 200
    /\ Len(req[1].resp.owned) = 1
    /\ Len(req[1].resp.shared) = 1
    /\ Len(req[1].resp.all) = 2
    /\ req[1].resp.shared[1].permission \in Permissions

\* The conditions the handler of request q checks before its write, evaluated
\* on store d.
ChecksHold(d, q) ==
    CASE q.kind = "createTask" -> EditAccessError(d, q, "") = NoResp
      [] q.kind \in {"updateTask", "updateTaskStatus", "deleteTask"} ->
           EditAccessError(d, q, "") = NoResp /\ TaskError(d, q) = NoResp
      [] q.kind \in {"updateTaskList", "deleteTaskList", "shareTaskList"} ->
           OwnerError(d, q, "") = NoResp
      [] q.kind \in {"updateShare", "deleteShare"} ->
           OwnerError(d, q, "") = NoResp /\ ShareError(d, q) = NoResp
      [] OTHER -> TRUE

\* The request in slot r is at its write and the step answers success.
Commits(r) ==
    /\ req[r].pc \in {"create", "update", "delete"}
    /\ req'[r].pc = "done"
    /\ req'[r].resp.status \in {200, 201}

\* C19: whenever the write of a handler commits, the conditions the handler
\* checked (the list exists, the caller's tier is sufficient, the task or
\* share exists and belongs to the list) hold in the store the write is
\* applied to, whatever other requests ran between the checks and the write.
C19_ChecksHoldAtWrite ==
    [][\A r \in Slots : Commits(r) => ChecksHold(db, req[r])]_vars

\* C20: a task create on a list that runs while the list is deleted is
\* answered 201, 403 or 404 and nothing else, and no task of a deleted list
\* is left in the store.
C20_CreateDuringDelete ==
    [][/\ \A r \in Slots :
            (req[r].kind = "createTask" /\ InFlight(r) /\ req'[r].pc = "done")
            => req'[r].resp.status \in {201, 403, 404}
       /\ \A t \in db'.tasks : Exists(db'.taskLists, t.taskListId)]_vars

\* C21: the tier the resolver returns for a list and a user is the tier the
\* store stated for them at one of the resolver's reads, whatever grants,
\* permission updates, revokes and list deletes ran between the read of the
\* list and the read of its shares.
C21_ConsistentTier ==
    [][\A r \in Slots :
          (/\ req[r].kind = "getUserPermission"
           /\ req[r].pc \in {"findList", "findShares"}
           /\ req'[r].pc = "done")
          => /\ req'[r].resp.permission = TierIn(db, req[r].taskListId, req[r].userId)
                \/ /\ req[r].pc = "findShares"
                   /\ req'[r].resp.permission = req[r].resolved
             /\ req'[r].resp.isOwner <=> (req'[r].resp.permission = "owner")]_vars

\* The resolver returned owner for a list that was deleted between its two
\* reads: the tier of the first read, no longer the tier in the store.
C21_Witness ==
    /\ Answered(2)
    /\ req[2].kind = "getUserPermission"
    /\ req[2].resp.permission = "owner"
    /\ ~Exists(db.taskLists, req[2].taskListId)

\* Requests of every route behind authenticate, with bodies the validators
\* accept and bodies they refuse, under every Authorization header.
AllRequests ==
    {[q EXCEPT !.scheme = a.scheme, !.token = a.token] :
       q \in CreateTaskListRequests({"A", ""}) \cup GetTaskListsRequests
              \cup OnList("getTaskList") \cup UpdateTaskListRequests({"B", ""})
              \cup OnList("deleteTaskList") \cup OnList("getTasks")
              \cup CreateTaskRequests({"A", ""}, {Undefined}, {Undefined, InvalidStatus})
              \cup UpdateTaskRequests({"B", ""}, {Undefined}, {Undefined})
              \cup UpdateTaskStatusRequests({"completed", InvalidStatus})
              \cup OnTask("deleteTask") \cup ShareTaskListRequests
              \cup OnList("getShares") \cup UpdateShareRequests
              \cup OnShare("deleteShare"),
       a \in AuthInputs}

\* C22: on every route but registration and login, a request without an
\* Authorization header, with a header that is not a bearer token, with a
\* token that does not verify, or with the token of a user that does not
\* exist is answered 401, whatever its path and body, and changes nothing.
C22_BearerTokenRequired ==
    Ready =>
      \A q \in AllRequests :
         (\/ q.scheme # "bearer"
          \/ q.token = 0
          \/ ~\E u \in db.users : u.id = q.token) =>
           /\ Response(q).status = 401
           /\ Response(q).error # ""
           /\ StoreAfter(q) = db

\* A share update without a permission, with a header that is not a bearer
\* token, was answered 401 and not 400.
C22_Witness ==
    /\ Answered(1)
    /\ req[1].kind = "updateShare"
    /\ req[1].scheme = "basic"
    /\ req[1].permission \notin Permissions
    /\ req[1].resp = Err(401, "No token provided. Please authenticate.")
    /\ db.taskLists # {}

\* Well-formed requests on one list: the task-list, task and share routes
\* that carry a list id.
OnOneList ==
    OnList("getTaskList") \cup UpdateTaskListRequests(Titles)
    \cup OnList("deleteTaskList") \cup OnList("getTasks")
    \cup CreateTaskRequests({"A"}, {Undefined}, {Undefined})
    \cup UpdateTaskRequests({"B"}, {Undefined}, {Undefined})
    \cup UpdateTaskStatusRequests({"completed"}) \cup OnTask("deleteTask")
    \cup ShareOps

\* C23: every task-list, task and share request of a registered user whose
\* list id names no list is answered 404.
C23_MissingListIsNotFound ==
    Ready =>
      \A u \in db.users, q \in OnOneList :
         (q.token = u.id /\ ~\E l \in db.taskLists : l.id = q.taskListId) =>
           Response(q).status = 404

\* The status of task id in store d.
StatusIn(d, id) == Row(d.tasks, id).status

\* C24: for a user with owner or edit tier, every status is reached from
\* every status by one status change and by one update carrying the status:
\* from the status the task has, and from each status a first change has
\* given it, completed included.
C24_AnyStatusToAny ==
    Ready =>
      \A t \in db.tasks, l \in db.taskLists, u \in db.users :
         (t.taskListId = l.id /\ CanEdit(l, u)) =>
           \A p \in By(UpdateTaskStatusRequests(Statuses), u, l),
              q \in By(UpdateTaskStatusRequests(Statuses)
                       \cup UpdateTaskRequests({Undefined}, {Undefined}, Statuses),
                       u, l) :
              (p.taskId = t.id /\ q.taskId = t.id) =>
                /\ Response(q).status = 200
                /\ StatusIn(StoreAfter(q), t.id) = q.status
                /\ StatusIn(StoreAfter(p), t.id) = p.status
                /\ Run(StoreAfter(p), q).q.resp.status = 200
                /\ StatusIn(Run(StoreAfter(p), q).db, t.id) = q.status

\* A status change to pending was answered 200 for a task that an update
\* had given the title B, and the task is pending.
C24_Witness ==
    /\ Answered(1)
    /\ req[1].kind = "updateTaskStatus"
    /\ req[1].status = "pending"
    /\ req[1].resp.status = 200
    /\ \E t \in db.tasks :
          t.id = req[1].taskId /\ t.title = "B" /\ t.status = "pending"

C25_UniqueEmail ==
    /\ \A u \in db.users, v \in db.users : u.email = v.email => u = v
    /\ \A q \in RegisterRequests :
          (\E u \in db.users : u.email = q.email) =>
            /\ Response(q) = Err(400, "User with this email already exists")
            /\ StoreAfter(q) = db

\* Two registrations with one email both found no user; the unique index
\* refused the insert of the second, and one user has the email.
C25_Witness ==
    \E r \in Slots :
       /\ Answered(r)
       /\ req[r].kind = "register"
       /\ req[r].resp = Err(500, "Failed to register user")
       /\ Cardinality(UserByEmail(db, req[r].email)) = 1

\* The status codes the handlers and authenticate answer.
StatusCodes == {200, 201, 400, 401, 403, 404, 500}

C27_SharesToOwnerOnly ==
    Ready =>
      \A l \in db.taskLists, u \in db.users :
         l.ownerId # u.id =>
           \A q \in By(OnList("getTaskList") \cup OnList("getShares")
                        \cup OnList("getTasks"), u, l) :
              Response(q).shares = <<>>

\* The requests of the routes that check access inline: the task-list routes
\* on one list and the share routes.
InlineChecked ==
    OnList("getTaskList") \cup UpdateTaskListRequests(Titles)
    \cup OnList("deleteTaskList") \cup ShareOps

\* The decision the resolver's tier gives for a route: the read of a list
\* needs any tier, every other route here the owner tier.
Sufficient(tier, kind) ==
    IF kind = "getTaskList" THEN tier.hasAccess ELSE tier.isOwner

\* C28: on an existing list, a well-formed request to a task-list route or a
\* share route by a registered user is refused with 403 exactly when the tier
\* getUserPermission computes for the list and the user in the same store is
\* not sufficient for the route, and a refused request leaves the store
\* unchanged.
C28_SameDecision ==
    Ready =>
      \A l \in db.taskLists, u \in db.users :
         \A q \in By(InlineChecked, u, l) :
            LET tier == GetUserPermission(db, l.id, u.id)
            IN /\ Response(q).status = 403 <=> ~Sufficient(tier, q.kind)
               /\ Response(q).status = 403 => StoreAfter(q) = db

\* The holder of an edit share asked to delete the list and was refused; the
\* list is still there.
C28_Witness ==
    /\ Answered(1)
    /\ req[1].kind = "deleteTaskList"
    /\ req[1].resp.status = 403
    /\ \E l \in db.taskLists, u \in db.users :
          /\ l.id = req[1].taskListId
          /\ u.id = req[1].token
          /\ GetUserPermission(db, l.id, u.id).permission = "edit"

\* The routes that write share records: grant, permission update, revoke, and
\* the delete of a list, which cascades to its shares.
ShareWriters == {"shareTaskList", "updateShare", "deleteShare", "deleteTaskList"}

\* C29: whenever the share records of a list change (one is created, deleted
\* or changes its permission), the step is the answer to a grant, permission
\* update, revoke or list delete addressed to that list by the user who owns
\* it; so no request of a user with tier edit, view or none changes them.
C29_OnlyOwnerChangesShares ==
    [][\A l \in ListIds :
         SharesOn(db, l) # SharesOn(db', l) =>
           /\ Answered(1)'
           /\ req'[1].kind \in ShareWriters
           /\ req'[1].taskListId = l
           /\ \E x \in db.taskLists : x.id = l /\ x.ownerId = req'[1].token]_vars

\* The holder of a view share asked to raise that share to edit and was
\* refused; the share is still a view share.
C29_Witness ==
    /\ Answered(1)
    /\ req[1].kind = "updateShare"
    /\ req[1].permission = "edit"
    /\ req[1].resp.status = 403
    /\ \E s \in db.shares :
          /\ s.id = req[1].shareId
          /\ s.taskListId = req[1].taskListId
          /\ s.userId = req[1].token
          /\ s.permission = "view"

\* Every well-formed request of the routes that write.
Operations ==
    RegisterRequests \cup CreateTaskListRequests(Titles) \cup OnOneList
    \cup ValidUpdateTask

\* C31: no request changes the owner of a list or the list of a task that it
\* leaves in the store; a list update changes nothing but the title of lists,
\* and a task update nothing but the title, description and status of tasks.
C31_ImmutableLinks ==
    Ready =>
      \A q \in Operations :
         LET d == StoreAfter(q)
         IN /\ \A l \in db.taskLists, m \in d.taskLists :
                  l.id = m.id => m.ownerId = l.ownerId
            /\ \A t \in db.tasks, v \in d.tasks :
                  t.id = v.id => v.taskListId = t.taskListId
            /\ q.kind = "updateTaskList" =>
                  /\ d.users = db.users /\ d.tasks = db.tasks /\ d.shares = db.shares
                  /\ {l.id : l \in d.taskLists} = {l.id : l \in db.taskLists}
                  /\ \A m \in d.taskLists :
                        [m EXCEPT !.title = ""] \in
                          {[l EXCEPT !.title = ""] : l \in db.taskLists}
            /\ q.kind = "updateTask" =>
                  /\ d.users = db.users /\ d.taskLists = db.taskLists
                  /\ d.shares = db.shares
                  /\ {t.id : t \in d.tasks} = {t.id : t \in db.tasks}
                  /\ \A v \in d.tasks :
                        [v EXCEPT !.title = "", !.description = "", !.status = ""] \in
                          {[t EXCEPT !.title = "", !.description = "", !.status = ""] :
                             t \in db.tasks}

\* The owner renamed a list that holds a task; the list has the new title and
\* its owner, and the task is still in it.
C31_Witness ==
    /\ Answered(1)
    /\ req[1].kind = "updateTaskList"
    /\ req[1].resp.status = 200
    /\ \E l \in db.taskLists, t \in db.tasks :
          /\ l.id = req[1].taskListId
          /\ l.title = "B"
          /\ l.ownerId = req[1].token
          /\ t.taskListId = l.id

\* C32: in every state, also with two requests interleaved, every task is in
\* an existing list, every share is on an existing list and for an existing
\* user, and every list is owned by an existing user.
C32_ReferentialIntegrity ==
    /\ \A t \in db.tasks : Exists(db.taskLists, t.taskListId)
    /\ \A s \in db.shares :
          Exists(db.taskLists, s.taskListId) /\ Exists(db.users, s.userId)
    /\ \A l \in db.taskLists : Exists(db.users, l.ownerId)

\* A task create passed its access check, the list was deleted before the
\* insert, and the insert was refused.
C32_Witness ==
    \E r \in Slots :
       /\ Answered(r)
       /\ req[r].kind = "createTask"
       /\ req[r].resp = Err(500, "Failed to create task")
       /\ ~Exists(db.taskLists, req[r].taskListId)
       /\ db.tasks = {}

\* Titles that are empty once trimmed.
EmptyTitles == {"", Whitespace}

\* C33: no stored task title is empty; a task update by a user who may write
\* the list is answered 400 and changes nothing when its title is empty or
\* whitespace, and otherwise, when its description is sent empty, is answered
\* 200 and stores the empty description.
C33_TitleKeptDescriptionCleared ==
    Ready =>
      /\ \A t \in db.tasks : t.title \notin EmptyTitles
      /\ \A t \in db.tasks, l \in db.taskLists, u \in db.users :
            (t.taskListId = l.id /\ CanEdit(l, u)) =>
              \A q \in By(UpdateTaskRequests(Titles \cup EmptyTitles \cup
                                                {Undefined, Padded},
                                              Descriptions, {Undefined}), u, l) :
                 q.taskId = t.id =>
                   /\ q.title \in EmptyTitles =>
                         /\ Response(q).status = 400
                         /\ StoreAfter(q) = db
                   /\ (q.title \notin EmptyTitles /\ q.description = "") =>
                         /\ Response(q).status = 200
                         /\ Row(StoreAfter(q).tasks, t.id).description = ""

\* A task created with a description was updated with an empty description:
\* the stored description is empty and the title is the one it had.
C33_Witness ==
    /\ Answered(1)
    /\ req[1].kind = "updateTask"
    /\ req[1].description = ""
    /\ req[1].resp.status = 200
    /\ \E t \in db.tasks :
          t.id = req[1].taskId /\ t.description = "" /\ t.title \in Titles

\* C34: a list create with a valid title by any registered user, whatever the
\* user's tiers on other lists, is answered 201 and adds exactly one list,
\* with a new id, the trimmed title and the user as owner, without tasks and
\* shares; the resolver gives the user the tier owner on it and every other
\* user no access; users, tasks, shares and the other lists are unchanged.
C34_CreateList ==
    Ready =>
      \A u \in db.users, q \in CreateTaskListRequests(Titles \cup {Padded}) :
         q.token = u.id =>
           LET d == StoreAfter(q)
           IN /\ Response(q).status = 201
              /\ d.users = db.users /\ d.tasks = db.tasks /\ d.shares = db.shares
              /\ db.taskLists \subseteq d.taskLists
              /\ \E n \in d.taskLists :
                    /\ d.taskLists = db.taskLists \cup {n}
                    /\ ~Exists(db.taskLists, n.id)
                    /\ n.ownerId = u.id
                    /\ n.title = Trim(q.title)
                    /\ TasksOf(d, n.id) = {}
                    /\ SharesOn(d, n.id) = {}
                    /\ GetUserPermission(d, n.id, u.id).permission = "owner"
                    /\ \A v \in db.users \ {u} :
                          ~GetUserPermission(d, n.id, v.id).hasAccess

\* A user who holds a share on another user's list created a list: the new
\* list is theirs and has no shares, and the share they hold is still there.
C34_Witness ==
    /\ Answered(1)
    /\ req[1].kind = "createTaskList"
    /\ req[1].resp.status = 201
    /\ \E l \in db.taskLists, m \in db.taskLists :
          /\ l.id = req[1].taskListId
          /\ l.ownerId = req[1].token
          /\ SharesOn(db, l.id) = {}
          /\ m.ownerId # l.ownerId
          /\ SharesOf(db, m.id, l.ownerId) # {}

\* Grants and permission updates with a permission that is not view or edit,
\* and task creates, updates and status changes with a status that is not
\* pending, in_progress or completed.
OutOfDomain ==
    {q \in ShareTaskListRequests : q.permission = InvalidPermission}
    \cup {q \in UpdateShareRequests : q.permission = InvalidPermission}
    \cup CreateTaskRequests(Titles, Descriptions, {InvalidStatus})
    \cup UpdateTaskRequests(Titles \cup {Undefined}, Descriptions, {InvalidStatus})
    \cup UpdateTaskStatusRequests({InvalidStatus})

\* C35: in every state every share's permission is view or edit and every
\* task's status is pending, in_progress or completed, and the resolver's tier
\* is owner, edit, view or none; a request of a registered user that carries
\* another permission or status is answered 400 and changes nothing.
C35_Domains ==
    /\ \A s \in db.shares : s.permission \in Permissions
    /\ \A t \in db.tasks : t.status \in Statuses
    /\ \A l \in ListIds, u \in UserIds :
          GetUserPermission(db, l, u).permission \in {"owner", "edit", "view", Null}
    /\ Ready =>
          \A u \in db.users, q \in OutOfDomain :
             q.token = u.id =>
               /\ Response(q).status = 400
               /\ StoreAfter(q) = db

\* The owner asked to set an existing share of the list to a permission that
\* is neither view nor edit and was answered 400; the share is as it was.
C35_Witness ==
    /\ Answered(1)
    /\ req[1].kind = "updateShare"
    /\ req[1].permission = InvalidPermission
    /\ req[1].resp.status = 400
    /\ \E l \in db.taskLists, s \in db.shares :
          /\ l.id = req[1].taskListId
          /\ l.ownerId = req[1].token
          /\ s.id = req[1].shareId
          /\ s.taskListId = l.id
          /\ s.permission \in Permissions

\* C36: the store changes only in the step in which a request is answered 200
\* or 201; so a request that is answered 400, 401, 403, 404 or 500 has changed
\* neither users, lists, tasks nor shares in any of its steps, whatever other
\* request ran between them.
C36_ErrorsChangeNothing ==
    [][db' # db =>
         \E r \in Slots :
            /\ ~Answered(r)
            /\ Answered(r)'
            /\ req'[r].resp.status \in {200, 201}]_vars

\* A list delete found the list and the caller its owner, another delete
\* removed the list first, and the request was answered 500.
C36_Witness ==
    \E r \in Slots :
       /\ Answered(r)
       /\ req[r].kind = "deleteTaskList"
       /\ req[r].resp = Err(500, "Failed to delete task list")

\* The rows of a listing, each created after the rows that follow it.
Descending(rows) ==
    \A i \in DOMAIN rows, j \in DOMAIN rows : i < j => rows[i].id > rows[j].id

ValidLogin ==
    {q \in Credentials("login") : q.email # InvalidEmail /\ q.password # NoPassword}

UnknownEmail(q) == UserByEmail(db, q.email) = {}

WrongPassword(q) ==
    \E u \in db.users :
       u.email = q.email /\ u.password # HashPassword(q.password)

C39_AffordancesFollowFetch ==
    (/\ dash.selectedTaskList # NoneSelected
     /\ dash.fetches = {}
     /\ dash.response.taskListId = dash.selectedTaskList.id
     /\ dash.response.status = 200) =>
      (canEdit <=> dash.response.permission \in {"owner", "edit"})

\* C40: when a list is selected and no task fetch is outstanding, every
\* displayed task is a task of the selected list.
C40_TasksOfSelected ==
    (/\ dash.selectedTaskList # NoneSelected
     /\ dash.fetches = {}) =>
      \A i \in DOMAIN dash.tasks :
         dash.tasks[i].taskListId = dash.selectedTaskList.id

\* C10: the delete of a list by its owner is answered 200 and leaves no task
\* and no share of the list, and the tasks and shares of every other list as
\* they were.
C10_DeleteCascades ==
    Ready =>
      \A l \in db.taskLists, o \in db.users :
         l.ownerId = o.id =>
           \A q \in By(OnList("deleteTaskList"), o, l) :
              /\ Response(q).status = 200
              /\ ~Exists(StoreAfter(q).taskLists, l.id)
              /\ TasksOf(StoreAfter(q), l.id) = {}
              /\ SharesOn(StoreAfter(q), l.id) = {}
              /\ StoreAfter(q).tasks = {t \in db.tasks : t.taskListId # l.id}
              /\ StoreAfter(q).shares = {s \in db.shares : s.taskListId # l.id}
              /\ StoreAfter(q).taskLists = db.taskLists \ {l}

\* A list that held a task and a share was deleted: the task and the share
\* are gone, and the share of the other list is still there.
C10_Witness ==
    /\ Answered(1)
    /\ req[1].kind = "deleteTaskList"
    /\ req[1].resp.status = 200
    /\ db.nextTaskId > 1 /\ db.tasks = {}
    /\ db.nextShareId > 2 /\ Cardinality(db.shares) = 1
    /\ \E l \in db.taskLists : SharesOn(db, l.id) # {}

====
